---- MODULE Spec2Model ----
(***************************************************************************)
(* pyvrs: the list-like reader over a VRS file (reader.py), its filtered   *)
(* views (filter.py) and its slices (slice.py), on top of the record store *)
(* (the native Reader the Python classes delegate to).                     *)
(*                                                                         *)
(* Conventions.  Absolute record indices and list positions are 0-based,   *)
(* as in Python; a Python list is a TLA+ sequence, so position p of list L *)
(* is L[p + 1].  An optional argument is a sequence of length <= 1:        *)
(* <<>> is None and <<v>> is the value v.  Timestamps and epsilons are     *)
(* integers (a fixed-point time unit).  A stream id or a glob pattern is a *)
(* tuple of one-character strings.                                         *)
(***************************************************************************)
EXTENDS Integers, Sequences, FiniteSets, TLC

VARIABLES
    catalog,  \* the file: sequence of [stream, type, ts], timestamp ordered
    store,    \* the native reader: [auto, lastReadConfig]
    reader,   \* the fields VRSReader.__init__ sets
    filt,     \* the filtered view the caller holds: <<>> or <<FilteredVRSReader>>
    sl,       \* the slice the caller holds: <<>> or <<VRSReaderSlice>>
    hist,     \* history: the configuration records the store has decoded so far
    inp,      \* the arguments the caller passes to the operations
    last,     \* the last operation: its arguments, its outcome, what it asked of the store
    iter      \* the iteration under way: the view iterated, its position, what it yielded

vars == <<catalog, store, reader, filt, sl, hist, inp, last, iter>>

----------------------------------------------------------------------------
(* Bounds of the model                                                     *)

\* requested timestamps range over 0..MaxTs
MaxTs == 4
\* supplied epsilons range over 0..MaxEps
MaxEps == 2
\* integer subscripts range over -MaxSub..MaxSub
MaxSub == 7
\* slice bounds range over -MaxSliceArg..MaxSliceArg (and None)
MaxSliceArg == 2
\* the timestamp bounds of a filter range over 1..MaxFilterTs (and None)
MaxFilterTs == 2
\* a metadata dict has at most MaxEntries entries
MaxEntries == 3
MaxBrackets == 3
MaxLookups == 2

----------------------------------------------------------------------------
(* Values                                                                  *)

None == <<>>
Some(v) == <<v>>
IsNone(x) == x = <<>>
Val(x) == x[1]

ConfigurationT == "configuration"
DataT == "data"
StateT == "state"
RecordTypes == {ConfigurationT, DataT, StateT}

S11 == <<"1", "-", "1">>
S12 == <<"1", "-", "2">>
S21 == <<"2", "-", "1">>

R(s, t, ts) == [stream |-> s, type |-> t, ts |-> ts]

\* two interleaved streams; stream 1-1 is reconfigured in mid-stream
Catalog1 ==
    << R(S11, ConfigurationT, 0), R(S12, ConfigurationT, 0), R(S11, DataT, 1),
       R(S12, StateT, 1), R(S11, ConfigurationT, 2), R(S11, DataT, 3) >>

\* equal timestamps, and a stream (2-1) that has no configuration record
Catalog2 ==
    << R(S21, DataT, 1), R(S21, DataT, 1), R(S11, ConfigurationT, 1),
       R(S21, DataT, 3), R(S11, StateT, 3) >>

Catalogs == {Catalog1, Catalog2}

Min(a, b) == IF a < b THEN a ELSE b
Max(a, b) == IF a > b THEN a ELSE b
Abs(a) == IF a < 0 THEN -a ELSE a

SetMin(S) == CHOOSE x \in S : \A y \in S : x <= y
SetMax(S) == CHOOSE x \in S : \A y \in S : x >= y

Range(s) == {s[k] : k \in 1..Len(s)}

----------------------------------------------------------------------------
(* Outcomes.  An operation ends with err = NoError and a value, or with    *)
(* the name of the Python exception that reaches the caller.               *)

NoError == "none"
IndexError == "IndexError"
ValueError == "ValueError"
TimestampNotFoundError == "TimestampNotFoundError"
StreamNotFoundError == "StreamNotFoundError"
AssertionError == "AssertionError"
AttributeError == "AttributeError"
TypeError == "TypeError"
NotImplementedError == "NotImplementedError"
KeyError == "KeyError"
RuntimeError == "RuntimeError"

Ok(v) == [err |-> NoError, value |-> v]
Raise(e) == [err |-> e, value |-> -1]

----------------------------------------------------------------------------
(* The record store (the native Reader behind self._reader).  The Python   *)
(* classes only delegate to it; its behaviour is the store contract of the *)
(* specification (sections 4.2, 4.3, 4.5, 4.6 and 6).                      *)

NRecords == Len(catalog)
Rec(i) == catalog[i + 1]
AllIndices == [k \in 1..NRecords |-> k - 1]

get_available_records_size == NRecords
get_available_stream_ids == {catalog[k].stream : k \in 1..NRecords}
get_available_record_types == {catalog[k].type : k \in 1..NRecords}
get_min_available_timestamp == IF NRecords = 0 THEN 0 ELSE catalog[1].ts
get_max_available_timestamp == IF NRecords = 0 THEN 0 ELSE catalog[NRecords].ts

\* timestamp of the record at an absolute index; there is none outside
\* 0 .. count - 1
store_get_timestamp_for_index(i) ==
    IF 0 <= i /\ i < NRecords THEN Ok(Rec(i).ts) ELSE Raise(IndexError)

\* the index subset of a filter: one pass over the index in file order
regenerate_enabled_indices(record_types, stream_ids, min_timestamp, max_timestamp) ==
    SelectSeq(AllIndices,
              LAMBDA i : /\ Rec(i).ts >= min_timestamp
                         /\ Rec(i).ts <= max_timestamp
                         /\ Rec(i).type \in record_types
                         /\ Rec(i).stream \in stream_ids)

\* first index at or after `from` on stream_id with timestamp >= timestamp (NRecords: none)
RECURSIVE LowerBoundScan(_, _, _)
LowerBoundScan(stream_id, timestamp, from) ==
    IF from >= NRecords THEN NRecords
    ELSE IF Rec(from).stream = stream_id /\ Rec(from).ts >= timestamp THEN from
    ELSE LowerBoundScan(stream_id, timestamp, from + 1)

\* lower-bound lookup on a stream
store_get_record_index_by_time(stream_id, timestamp) ==
    IF stream_id \notin get_available_stream_ids THEN Raise(StreamNotFoundError)
    ELSE LET i == LowerBoundScan(stream_id, timestamp, 0)
         IN  IF i >= NRecords THEN Raise(ValueError) ELSE Ok(i)

\* is the record at index i inside the epsilon window of timestamp (the
\* records at exactly epsilon distance are outside)
InWindow(i, timestamp, epsilon) == Abs(Rec(i).ts - timestamp) < epsilon

\* nearest record of a stream inside the epsilon window: a scan in file order
\* that keeps the best candidate, replaced only by a strictly nearer one
RECURSIVE NearestScan(_, _, _, _, _)
NearestScan(stream_id, timestamp, epsilon, from, best) ==
    IF from >= NRecords THEN best
    ELSE LET better ==
                 /\ Rec(from).stream = stream_id
                 /\ InWindow(from, timestamp, epsilon)
                 /\ \/ best < 0
                    \/ Abs(Rec(from).ts - timestamp) < Abs(Rec(best).ts - timestamp)
         IN  NearestScan(stream_id, timestamp, epsilon, from + 1,
                         IF better THEN from ELSE best)

store_get_nearest_record_index_by_time(timestamp, epsilon, stream_id) ==
    IF stream_id \notin get_available_stream_ids THEN Raise(StreamNotFoundError)
    ELSE LET i == NearestScan(stream_id, timestamp, epsilon, 0, -1)
         IN  IF i < 0 THEN Raise(TimestampNotFoundError) ELSE Ok(i)

Matches(i, stream_id, record_type) ==
    Rec(i).stream = stream_id /\ Rec(i).type = record_type

RECURSIVE PrevScan(_, _, _)
PrevScan(stream_id, record_type, i) ==
    IF i < 0 THEN -1
    ELSE IF i < NRecords /\ Matches(i, stream_id, record_type) THEN i
    ELSE PrevScan(stream_id, record_type, i - 1)

RECURSIVE NextScan(_, _, _)
NextScan(stream_id, record_type, i) ==
    IF i >= NRecords THEN -1
    ELSE IF i >= 0 /\ Matches(i, stream_id, record_type) THEN i
    ELSE NextScan(stream_id, record_type, i + 1)

\* last matching index <= index; IndexError when there is none
store_get_prev_index(stream_id, record_type, index) ==
    IF stream_id \notin get_available_stream_ids THEN Raise(StreamNotFoundError)
    ELSE LET j == PrevScan(stream_id, record_type, index)
         IN  IF j < 0 THEN Raise(IndexError) ELSE Ok(j)

\* first matching index >= index; IndexError when there is none
store_get_next_index(stream_id, record_type, index) ==
    IF stream_id \notin get_available_stream_ids THEN Raise(StreamNotFoundError)
    ELSE LET j == NextScan(stream_id, record_type, index)
         IN  IF j < 0 THEN Raise(IndexError) ELSE Ok(j)

\* the latest configuration record of the stream of record i that precedes i (-1: none)
LatestConfigBefore(i) == PrevScan(Rec(i).stream, ConfigurationT, i - 1)

\* the records one read_record(i) call decodes, in order, when the store was
\* built with auto_read_configuration_records = autoFlag: in auto mode the
\* stream's latest preceding configuration record goes first unless it is
\* the configuration record the store decoded last for that stream
store_decodes(autoFlag, lastCfg, i) ==
    LET c == LatestConfigBefore(i)
    IN  IF autoFlag /\ Rec(i).type # ConfigurationT /\ c >= 0 /\ lastCfg[Rec(i).stream] # c
        THEN <<c, i>>
        ELSE <<i>>

\* the store's per-stream memory after decoding the sequence ds
RECURSIVE AfterDecodes(_, _)
AfterDecodes(lastCfg, ds) ==
    IF ds = <<>> THEN lastCfg
    ELSE AfterDecodes(
             IF Rec(Head(ds)).type = ConfigurationT
             THEN [lastCfg EXCEPT ![Rec(Head(ds)).stream] = Head(ds)]
             ELSE lastCfg,
             Tail(ds))

ConfigsIn(ds) == {ds[k] : k \in {n \in 1..Len(ds) : Rec(ds[n]).type = ConfigurationT}}


\* record_count_by_type_from_stream_id(stream_id): the number of records of
\* each type on a stream of the file; no such mapping for any other stream id
store_record_count_by_type_from_stream_id(stream_id) ==
    IF stream_id \in get_available_stream_ids
    THEN Ok([t \in get_available_record_types |->
                Cardinality({k \in 1..NRecords :
                                catalog[k].stream = stream_id /\ catalog[k].type = t})])
    ELSE Raise(StreamNotFoundError)

\* what a call on a closed store can fail with: the error is the store's;
\* either the kind the reader's neighbour searches catch or another one
StoreFailures == {IndexError, RuntimeError}

\* close(): the file is released; calls made afterwards fail
store_close(st, failure) == [st EXCEPT !.open = FALSE, !.failure = failure]

\* ImageConversion: what the store does to the pixels of an image block
OFF == "OFF"
DECOMPRESS == "DECOMPRESS"
NORMALIZE == "NORMALIZE"
ImageConversions == {OFF, DECOMPRESS, NORMALIZE}

\* RecordableTypeId of a stream: the part of its id before the dash
RecordableTypeId(s) == s[1]

\* the store's conversion policy: the conversion applied to each stream
NoConversionPolicy == [s \in {S11, S12, S21} |-> OFF]

\* set_image_conversion(conversion): every stream
store_set_image_conversion(policy, conversion) ==
    [s \in DOMAIN policy |-> conversion]

\* set_image_conversion(stream_id, conversion): one stream
store_set_stream_image_conversion(policy, stream_id, conversion) ==
    [s \in DOMAIN policy |-> IF s = stream_id THEN conversion ELSE policy[s]]

\* set_image_conversion(RecordableTypeId, conversion): the streams of a type
store_set_stream_type_image_conversion(policy, recordable_type_id, conversion) ==
    [s \in DOMAIN policy |->
        IF RecordableTypeId(s) = recordable_type_id THEN conversion ELSE policy[s]]

----------------------------------------------------------------------------
(* utils.py                                                                *)

\* fnmatch.fnmatch on a name and a glob pattern: '*' matches any run of
\* characters, '?' exactly one, any other character itself
RECURSIVE fnmatch(_, _)
fnmatch(name, pat) ==
    IF pat = <<>> THEN name = <<>>
    ELSE IF Head(pat) = "*"
         THEN fnmatch(name, Tail(pat)) \/ (name # <<>> /\ fnmatch(Tail(name), pat))
    ELSE IF name = <<>> THEN FALSE
    ELSE IF Head(pat) = "?" THEN fnmatch(Tail(name), Tail(pat))
    ELSE Head(name) = Head(pat) /\ fnmatch(Tail(name), Tail(pat))

exact_match(a, b) == a = b

\* the elements a of s for which some item b satisfies cond_func(a, b); the
\* condition is handed over as a function on the pairs
filter_set_on_condition(s, items, cond_func) ==
    {a \in s : \E b \in items : cond_func[<<a, b>>]}

filter_by_stream_ids(available_stream_ids, regex_stream_ids) ==
    filter_set_on_condition(available_stream_ids, regex_stream_ids,
        [p \in available_stream_ids \X regex_stream_ids |-> fnmatch(p[1], p[2])])

\* a faulty variant: a requested type of "*" taken as a wildcard
filter_by_record_type_glob(available_record_types, requested_record_types) ==
    {a \in available_record_types :
         \E b \in requested_record_types : b = "*" \/ a = b}

filter_by_record_type(available_record_types, requested_record_types) ==
    filter_set_on_condition(available_record_types, requested_record_types,
        [p \in available_record_types \X requested_record_types |->
             exact_match(p[1], p[2])])

----------------------------------------------------------------------------
(* Python lists: subscripts and slices (list.__getitem__, range.__getitem__) *)

\* a valid integer subscript of a list of length n
PyIndexInRange(n, i) == -n <= i /\ i < n

\* a faulty variant: a negative subscript counted from the front
PyIndexPosition_mirrored(n, i) == IF i < 0 THEN -i - 1 ELSE i

\* the position an in-range subscript addresses: negative ones count from the end
PyIndexPosition(n, i) == IF i < 0 THEN i + n ELSE i

\* L[i] for an integer i: the element, or IndexError
PyListIndex(L, i) ==
    IF PyIndexInRange(Len(L), i)
    THEN Ok(L[PyIndexPosition(Len(L), i) + 1])
    ELSE Raise(IndexError)

\* slice.indices(n): a bound that is None takes the end the step starts from
\* or runs to; a negative bound counts from the end; both are clamped
PySliceStart(n, start, step) ==
    IF IsNone(start) THEN (IF step < 0 THEN n - 1 ELSE 0)
    ELSE IF Val(start) < 0 THEN Max(Val(start) + n, IF step < 0 THEN -1 ELSE 0)
    ELSE Min(Val(start), IF step < 0 THEN n - 1 ELSE n)

\* a faulty variant: the stop position taken into the slice
PySliceStop_inclusive(n, stop, step) ==
    IF IsNone(stop) THEN (IF step < 0 THEN -1 ELSE n)
    ELSE IF Val(stop) < 0 THEN Max(Val(stop) + n, IF step < 0 THEN -1 ELSE 0)
    ELSE Min(Val(stop) + 1, IF step < 0 THEN n - 1 ELSE n)

PySliceStop(n, stop, step) ==
    IF IsNone(stop) THEN (IF step < 0 THEN -1 ELSE n)
    ELSE IF Val(stop) < 0 THEN Max(Val(stop) + n, IF step < 0 THEN -1 ELSE 0)
    ELSE Min(Val(stop), IF step < 0 THEN n - 1 ELSE n)

\* the positions range(a, b, st) runs through
RECURSIVE PyRange(_, _, _)
PyRange(a, b, st) ==
    IF (st > 0 /\ a >= b) \/ (st < 0 /\ a <= b) THEN <<>>
    ELSE <<a>> \o PyRange(a + st, b, st)

\* a faulty variant: the whole list in its own order, whatever the slice
PyListSlice_copy(L, start, stop, step) == L

\* L[start:stop:step]: the selected elements in selection order (step is never 0 here)
PyListSlice(L, start, stop, step) ==
    LET st == IF IsNone(step) THEN 1 ELSE Val(step)
        ps == PyRange(PySliceStart(Len(L), start, st), PySliceStop(Len(L), stop, st), st)
    IN  [k \in 1..Len(ps) |-> L[ps[k] + 1]]

\* bisect.bisect (bisect_right): binary search for the insertion point after
\* every element <= x of the sorted list a
RECURSIVE BisectLoop(_, _, _, _)
BisectLoop(a, x, lo, hi) ==
    IF lo >= hi THEN lo
    ELSE LET mid == (lo + hi) \div 2
         IN  IF x < a[mid + 1] THEN BisectLoop(a, x, lo, mid)
             ELSE BisectLoop(a, x, mid + 1, hi)

\* the same search with the comparison of bisect_left
RECURSIVE BisectLeftLoop(_, _, _, _)
BisectLeftLoop(a, x, lo, hi) ==
    IF lo >= hi THEN lo
    ELSE LET mid == (lo + hi) \div 2
         IN  IF a[mid + 1] < x THEN BisectLeftLoop(a, x, mid + 1, hi)
             ELSE BisectLeftLoop(a, x, lo, mid)

bisect_left(a, x) == BisectLeftLoop(a, x, 0, Len(a))
bisect(a, x) == BisectLoop(a, x, 0, Len(a))

\* the record read_record(i) hands back
store_read_record(i) ==
    [record_index |-> i, stream_id |-> Rec(i).stream,
     record_type |-> Rec(i).type, timestamp |-> Rec(i).ts]

----------------------------------------------------------------------------
(* reader.py: VRSReader                                                    *)

StreamUniverse == {S11, S12, S21}

\* a new store: reader_cls(auto_read_configuration_records)
store_new(auto_read_configuration_records) ==
    [auto |-> auto_read_configuration_records,
     lastReadConfig |-> [s \in StreamUniverse |-> -1],
     conversion |-> NoConversionPolicy,
     open |-> TRUE, failure |-> NoError,
     count_lookups |-> [s \in StreamUniverse |-> 0]]

\* a faulty variant: the mode is not handed to the store
VRSReader_init_reader_default(auto_read_configuration_records) == store_new(FALSE)

\* VRSReader._init_reader: the store is built in the mode the caller chose
VRSReader_init_reader(auto_read_configuration_records) ==
    store_new(auto_read_configuration_records)

\* VRSReader.__init__: the catalog facts are read from the store once
VRSReader_init(auto_read_configuration_records) ==
    [n_records |-> get_available_records_size,
     record_types |-> get_available_record_types,
     stream_ids |-> get_available_stream_ids,
     min_timestamp |-> get_min_available_timestamp,
     max_timestamp |-> get_max_available_timestamp,
     record_counts_by_type |-> [s \in {} |-> 0],
     auto_read_configuration_records |-> auto_read_configuration_records]

\* a faulty variant: once a filtered view exists the reader indexes the
\* records the filter enabled
ReaderIndices_enabled ==
    IF filt = <<>> THEN [k \in 1..reader.n_records |-> k - 1]
    ELSE filt[1].filtered_indices

\* range(self.n_records): the index list of the unfiltered reader
ReaderIndices == [k \in 1..reader.n_records |-> k - 1]

VRSReader_get_timestamp_for_index(index) ==
    IF index >= reader.n_records THEN Raise(IndexError)
    ELSE store_get_timestamp_for_index(index)

\* a faulty variant of _generate_filtered_indices: the timestamp bounds handed over in the wrong order
VRSReader_generate_filtered_indices_swapped(record_filter) ==
    regenerate_enabled_indices(record_filter.record_types, record_filter.stream_ids,
                               record_filter.max_timestamp, record_filter.min_timestamp)

VRSReader_generate_filtered_indices(record_filter) ==
    regenerate_enabled_indices(record_filter.record_types, record_filter.stream_ids,
                               record_filter.min_timestamp, record_filter.max_timestamp)

\* a faulty variant of filtered_by_fields: an omitted stream_ids selects no stream
RecordFilter_of_empty(stream_ids, record_types, min_timestamp, max_timestamp) ==
    [record_types |->
         filter_by_record_type(reader.record_types,
             IF IsNone(record_types) THEN reader.record_types ELSE Val(record_types)),
     stream_ids |->
         filter_by_stream_ids(reader.stream_ids,
             IF IsNone(stream_ids) THEN {} ELSE Val(stream_ids)),
     min_timestamp |->
         IF IsNone(min_timestamp) THEN reader.min_timestamp ELSE Val(min_timestamp),
     max_timestamp |->
         IF IsNone(max_timestamp) THEN reader.max_timestamp ELSE Val(max_timestamp)]

\* the RecordFilter SyncVRSReader.filtered_by_fields builds: a dimension left
\* out (None) takes the reader's own value, then the requested stream ids are
\* expanded as globs and the requested record types matched exactly
RecordFilter_of(stream_ids, record_types, min_timestamp, max_timestamp) ==
    [record_types |->
         filter_by_record_type(reader.record_types,
             IF IsNone(record_types) THEN reader.record_types ELSE Val(record_types)),
     stream_ids |->
         filter_by_stream_ids(reader.stream_ids,
             IF IsNone(stream_ids) THEN reader.stream_ids ELSE Val(stream_ids)),
     min_timestamp |->
         IF IsNone(min_timestamp) THEN reader.min_timestamp ELSE Val(min_timestamp),
     max_timestamp |->
         IF IsNone(max_timestamp) THEN reader.max_timestamp ELSE Val(max_timestamp)]

----------------------------------------------------------------------------
(* filter.py: FilteredVRSReader                                            *)

\* the classes a FilteredVRSReader can be constructed on
READER == "reader"
FILTERED == "filtered"
SLICE == "slice"

\* the names SyncFilteredVRSReader and its bases define: filtered_by_fields is not one
FilteredVRSReaderAttrs ==
    {"__getitem__", "__len__", "__repr__", "__str__", "file_tags", "stream_tags",
     "n_records", "record_types", "stream_ids", "min_timestamp", "max_timestamp",
     "min_filter_timestamp", "max_filter_timestamp", "time_range", "find_stream",
     "find_streams", "get_stream_info", "get_records_count", "get_timestamp_list",
     "get_timestamp_for_index", "set_image_conversion", "set_stream_image_conversion",
     "set_stream_type_image_conversion", "might_contain_images", "might_contain_audio",
     "get_estimated_frame_rate", "get_record_index_by_time", "read_record_by_time",
     "read_prev_record", "read_next_record", "_read_record",
     "_record_count_by_type_from_stream_id", "_generate_filtered_indices"}

\* a faulty variant: the filter is applied whatever the view is constructed on
call_generate_filtered_indices_any(base, record_filter) ==
    Ok(VRSReader_generate_filtered_indices(record_filter))

\* self._reader._generate_filtered_indices(self._record_filter): the method of
\* VRSReader takes the filter; the one of FilteredVRSReader takes no argument,
\* so the call with one is a TypeError
call_generate_filtered_indices(base, record_filter) ==
    IF base = READER THEN Ok(VRSReader_generate_filtered_indices(record_filter))
    ELSE Raise(TypeError)

\* FilteredVRSReader.__init__(reader, record_filter)
FilteredVRSReader_init(base, record_filter) ==
    LET g == call_generate_filtered_indices(base, record_filter)
    IN  IF g.err # NoError THEN [err |-> g.err, view |-> None]
        ELSE LET L == g.value
             IN  [err |-> NoError,
                  view |-> Some(
                      [record_filter |-> record_filter,
                       filtered_indices |-> L,
                       min_timestamp |->
                           IF Len(L) = 0 THEN 0
                           ELSE VRSReader_get_timestamp_for_index(L[1]).value,
                       max_timestamp |->
                           IF Len(L) = 0 THEN 0
                           ELSE VRSReader_get_timestamp_for_index(L[Len(L)]).value])]

\* FilteredVRSReader.get_timestamp_for_index: the position is checked against
\* the end of the filtered list only, then the list is subscripted
FilteredVRSReader_get_timestamp_for_index(fv, index) ==
    IF index >= Len(fv.filtered_indices) THEN Raise(IndexError)
    ELSE LET e == PyListIndex(fv.filtered_indices, index)
         IN  IF e.err # NoError THEN Raise(e.err)
             ELSE VRSReader_get_timestamp_for_index(e.value)

----------------------------------------------------------------------------
(* slice.py                                                                *)

IntArg(i) == [kind |-> "int", i |-> i, start |-> None, stop |-> None, step |-> None]
SliceArg(start, stop, step) ==
    [kind |-> "slice", i |-> 0, start |-> start, stop |-> stop, step |-> step]

\* what an operation hands back: kind is "record" (value: its record_index),
\* "None", "int" (value: a position), "view" (a new view) or "raise"
Outcome(err, kind, value, calls, made) ==
    [err |-> err, kind |-> kind, value |-> value, calls |-> calls, made |-> made]

Raised(err) == Outcome(err, "raise", -1, <<>>, None)
\* an operation that returns None
NoOutcome == Outcome(NoError, "None", -1, <<>>, None)
RecordRead(i) == Outcome(NoError, "record", store_read_record(i).record_index, <<i>>, None)

\* a faulty variant of index_or_slice_records: a subscript past the end wraps around
index_or_slice_records_wrapping(vrs_indices, indices) ==
    IF indices.kind = "int"
    THEN IF Len(vrs_indices) = 0 THEN Raised(IndexError)
         ELSE RecordRead(vrs_indices[(indices.i % Len(vrs_indices)) + 1])
    ELSE Outcome(NoError, "view", -1, <<>>,
                 Some([indices |-> PyListSlice(vrs_indices, indices.start,
                                               indices.stop, indices.step)]))

\* index_or_slice_records(path, reader, vrs_indices, indices): an integer
\* reads the record at vrs_indices[indices]; anything else is left to the
\* list and wrapped in a VRSReaderSlice
index_or_slice_records(vrs_indices, indices) ==
    IF indices.kind = "int"
    THEN LET e == PyListIndex(vrs_indices, indices.i)
         IN  IF e.err # NoError THEN Raised(e.err) ELSE RecordRead(e.value)
    ELSE IF ~IsNone(indices.step) /\ Val(indices.step) = 0 THEN Raised(ValueError)
    ELSE Outcome(NoError, "view", -1, <<>>,
                 Some([indices |-> PyListSlice(vrs_indices, indices.start,
                                               indices.stop, indices.step)]))

\* a faulty variant of async_index_or_slice_records: the position is taken
\* for the absolute index
async_index_or_slice_records_unmapped(vrs_indices, indices) ==
    IF indices.kind = "int"
    THEN LET e == PyListIndex(vrs_indices, indices.i)
         IN  IF e.err # NoError THEN Raised(e.err) ELSE RecordRead(indices.i)
    ELSE IF ~IsNone(indices.step) /\ Val(indices.step) = 0 THEN Raised(ValueError)
    ELSE Outcome(NoError, "view", -1, <<>>,
                 Some([indices |-> PyListSlice(vrs_indices, indices.start,
                                               indices.stop, indices.step)]))
\* async_index_or_slice_records: the same two branches, the record awaited
\* from the store's async_read_record, the sub-view an AsyncVRSReaderSlice
async_index_or_slice_records(vrs_indices, indices) ==
    IF indices.kind = "int"
    THEN LET e == PyListIndex(vrs_indices, indices.i)
         IN  IF e.err # NoError THEN Raised(e.err) ELSE RecordRead(e.value)
    ELSE IF ~IsNone(indices.step) /\ Val(indices.step) = 0 THEN Raised(ValueError)
    ELSE Outcome(NoError, "view", -1, <<>>,
                 Some([indices |-> PyListSlice(vrs_indices, indices.start,
                                               indices.stop, indices.step)]))

\* VRSReaderSlice.__getitem__
VRSReaderSlice_getitem(slice, i) == index_or_slice_records(slice.indices, i)

\* VRSReader._read_record and VRSReader.__getitem__
VRSReader_read_record(indices, i) == index_or_slice_records(indices, i)
VRSReader_getitem(i) == VRSReader_read_record(ReaderIndices, i)

\* SyncFilteredVRSReader._read_record and SyncFilteredVRSReader.__getitem__
SyncFilteredVRSReader_read_record(indices, i) == VRSReader_read_record(indices, i)
SyncFilteredVRSReader_getitem(view, i) ==
    SyncFilteredVRSReader_read_record(view.filtered_indices, i)

----------------------------------------------------------------------------
(* Time lookups and neighbour lookups                                      *)


\* a faulty variant of the truth value: only None is false
Truthy_not_none(epsilon) == ~IsNone(epsilon)

\* Python truth value of the optional epsilon: None and 0 are false
Truthy(epsilon) == ~IsNone(epsilon) /\ Val(epsilon) # 0

\* a faulty variant: the branches of "if epsilon" exchanged
index_in_all_by_time_inverted(stream_id, timestamp, epsilon) ==
    IF ~Truthy(epsilon)
    THEN store_get_nearest_record_index_by_time(
             timestamp, IF IsNone(epsilon) THEN 0 ELSE Val(epsilon), stream_id)
    ELSE store_get_record_index_by_time(stream_id, timestamp)

\* the store lookup both time lookups of VRSReader choose
\* (reader.py: "if epsilon: ... else: ...")
index_in_all_by_time(stream_id, timestamp, epsilon) ==
    IF Truthy(epsilon)
    THEN store_get_nearest_record_index_by_time(timestamp, Val(epsilon), stream_id)
    ELSE store_get_record_index_by_time(stream_id, timestamp)

VRSReader_get_record_index_by_time(stream_id, timestamp, epsilon) ==
    IF stream_id \notin reader.stream_ids THEN Raised(AssertionError)
    ELSE LET r == index_in_all_by_time(stream_id, timestamp, epsilon)
         IN  IF r.err # NoError THEN Raised(r.err)
             ELSE Outcome(NoError, "int", r.value, <<>>, None)

VRSReader_read_record_by_time(stream_id, timestamp, epsilon) ==
    LET r == index_in_all_by_time(stream_id, timestamp, epsilon)
    IN  IF r.err # NoError THEN Raised(r.err) ELSE RecordRead(r.value)

\* a faulty variant of the remap: bisect_left in place of bisect
remap_left(filtered_indices, index) == Max(bisect_left(filtered_indices, index) - 1, 0)

\* max(bisect(self._filtered_indices, index) - 1, 0)
remap(filtered_indices, index) == Max(bisect(filtered_indices, index) - 1, 0)

FilteredVRSReader_get_record_index_by_time(view, stream_id, timestamp, epsilon) ==
    IF stream_id \notin view.record_filter.stream_ids THEN Raised(AssertionError)
    ELSE LET r == VRSReader_get_record_index_by_time(stream_id, timestamp, epsilon)
         IN  IF r.err # NoError THEN r
             ELSE Outcome(NoError, "int", remap(view.filtered_indices, r.value), <<>>, None)

FilteredVRSReader_read_record_by_time(view, stream_id, timestamp, epsilon) ==
    VRSReader_read_record_by_time(stream_id, timestamp, epsilon)

\* try: get_prev_index(...) except IndexError: return None; then read_record
\* a faulty variant of read_prev_record: a bare except, every failure becomes None
VRSReader_read_prev_record_catch_all(stream_id, record_type, index) ==
    LET r == store_get_prev_index(stream_id, record_type, index)
    IN  IF r.err # NoError THEN Outcome(NoError, "None", -1, <<>>, None)
        ELSE RecordRead(r.value)

VRSReader_read_prev_record(stream_id, record_type, index) ==
    LET r == store_get_prev_index(stream_id, record_type, index)
    IN  IF r.err = IndexError THEN Outcome(NoError, "None", -1, <<>>, None)
        ELSE IF r.err # NoError THEN Raised(r.err)
        ELSE RecordRead(r.value)

\* a faulty variant of read_next_record: the previous-index lookup is used
VRSReader_read_next_record_prev(stream_id, record_type, index) ==
    VRSReader_read_prev_record(stream_id, record_type, index)

VRSReader_read_next_record(stream_id, record_type, index) ==
    LET r == store_get_next_index(stream_id, record_type, index)
    IN  IF r.err = IndexError THEN Outcome(NoError, "None", -1, <<>>, None)
        ELSE IF r.err # NoError THEN Raised(r.err)
        ELSE RecordRead(r.value)

\* index_in_all = self._filtered_indices[index] is outside any try block
FilteredVRSReader_read_prev_record(view, stream_id, record_type, index) ==
    LET e == PyListIndex(view.filtered_indices, index)
    IN  IF e.err # NoError THEN Raised(e.err)
        ELSE VRSReader_read_prev_record(stream_id, record_type, e.value)

\* here the subscript is inside try ... except IndexError: return None
FilteredVRSReader_read_next_record(view, stream_id, record_type, index) ==
    LET e == PyListIndex(view.filtered_indices, index)
    IN  IF e.err = IndexError THEN Outcome(NoError, "None", -1, <<>>, None)
        ELSE VRSReader_read_next_record(stream_id, record_type, e.value)

----------------------------------------------------------------------------
(* Image conversion policy: the setters of VRSReader and FilteredVRSReader *)
(* Each yields the store's policy after the call and the call's outcome.   *)

\* VRSReader.set_image_conversion: handed to the store, for every stream
VRSReader_set_image_conversion(policy, conversion) ==
    [policy |-> store_set_image_conversion(policy, conversion),
     out |-> NoOutcome]

\* VRSReader.set_stream_image_conversion: handed to the store, for one stream
VRSReader_set_stream_image_conversion(policy, stream_id, conversion) ==
    [policy |-> store_set_stream_image_conversion(policy, stream_id, conversion),
     out |-> NoOutcome]

\* VRSReader.set_stream_type_image_conversion: handed to the store, for the
\* streams of a recordable type; the store's answer is returned
VRSReader_set_stream_type_image_conversion(policy, recordable_type_id, conversion) ==
    [policy |-> store_set_stream_type_image_conversion(policy, recordable_type_id,
                                                       conversion),
     out |-> Outcome(NoError, "int",
                     Cardinality({s \in DOMAIN policy :
                                     RecordableTypeId(s) = recordable_type_id}),
                     <<>>, None)]

\* a faulty variant: the filtered view hands the call on to its reader
FilteredVRSReader_set_image_conversion_delegating(policy, conversion) ==
    VRSReader_set_image_conversion(policy, conversion)

\* FilteredVRSReader.set_image_conversion: refused
FilteredVRSReader_set_image_conversion(policy, conversion) ==
    [policy |-> policy, out |-> Raised(NotImplementedError)]

\* FilteredVRSReader.set_stream_image_conversion: refused
FilteredVRSReader_set_stream_image_conversion(policy, stream_id, conversion) ==
    [policy |-> policy, out |-> Raised(NotImplementedError)]

\* FilteredVRSReader.set_stream_type_image_conversion: refused
FilteredVRSReader_set_stream_type_image_conversion(policy, recordable_type_id, conversion) ==
    [policy |-> policy, out |-> Raised(NotImplementedError)]
----------------------------------------------------------------------------
(* Per-stream record counts: _record_count_by_type_from_stream_id.  Each    *)
(* operator yields the reader's cache after the call, the outcome, and      *)
(* whether the store was asked.                                             *)

\* a faulty variant: the store is asked on every call
VRSReader_record_count_by_type_from_stream_id_uncached(cache, stream_id) ==
    LET r == store_record_count_by_type_from_stream_id(stream_id)
    IN  [cache |-> IF r.err # NoError THEN cache
                   ELSE [s \in DOMAIN cache \cup {stream_id} |->
                            IF s = stream_id THEN r.value ELSE cache[s]],
         out |-> IF r.err # NoError THEN Raised(r.err)
                 ELSE Outcome(NoError, "counts", -1, <<>>, Some(r.value)),
         asked |-> TRUE]

\* VRSReader._record_count_by_type_from_stream_id: a cached mapping is
\* returned; otherwise the store is asked and its answer stored, and a
\* failure of the store leaves the cache as it was
VRSReader_record_count_by_type_from_stream_id(cache, stream_id) ==
    IF stream_id \in DOMAIN cache
    THEN [cache |-> cache,
          out |-> Outcome(NoError, "counts", -1, <<>>, Some(cache[stream_id])),
          asked |-> FALSE]
    ELSE LET r == store_record_count_by_type_from_stream_id(stream_id)
         IN  [cache |-> IF r.err # NoError THEN cache
                        ELSE [s \in DOMAIN cache \cup {stream_id} |->
                                 IF s = stream_id THEN r.value ELSE cache[s]],
              out |-> IF r.err # NoError THEN Raised(r.err)
                      ELSE Outcome(NoError, "counts", -1, <<>>, Some(r.value)),
              asked |-> TRUE]

\* FilteredVRSReader._record_count_by_type_from_stream_id: the reader's
FilteredVRSReader_record_count_by_type_from_stream_id(cache, stream_id) ==
    VRSReader_record_count_by_type_from_stream_id(cache, stream_id)

----------------------------------------------------------------------------
(* __str__: the summary.  The string is the record of the facts it prints; *)
(* each operator yields the outcome, the reader's count cache after the    *)
(* call and the stream ids the store was asked about.                      *)

\* the attributes FilteredVRSReader.__init__ gives an instance
FilteredVRSReaderFields ==
    {"_reader", "_record_filter", "_filtered_indices", "_min_timestamp",
     "_max_timestamp"}

\* "enabled" if ... else "disabled"
EnabledOrDisabled(flag) == IF flag THEN "enabled" ELSE "disabled"

\* the loop `for stream_id in self.stream_ids` over
\* _record_count_by_type_from_stream_id: the cache afterwards
CacheAfterCounts(cache, stream_ids) ==
    [s \in DOMAIN cache \cup stream_ids |->
        IF s \in DOMAIN cache THEN cache[s]
        ELSE store_record_count_by_type_from_stream_id(s).value]

\* VRSReader.__str__ (the synchronous and the asynchronous reader share it)
VRSReader_str(rd) ==
    [out |-> Outcome(NoError, "str", -1, <<>>,
                     Some([enabled |-> rd.n_records, total |-> rd.n_records,
                           filtered |-> FALSE,
                           auto |-> EnabledOrDisabled(rd.auto_read_configuration_records),
                           stream_ids |-> rd.stream_ids,
                           record_types |-> rd.record_types,
                           counts |-> CacheAfterCounts(rd.record_counts_by_type,
                                                       rd.stream_ids)])),
     cache |-> CacheAfterCounts(rd.record_counts_by_type, rd.stream_ids),
     asked |-> rd.stream_ids \ DOMAIN rd.record_counts_by_type]

\* SyncFilteredVRSReader.__str__: the mode is read from self._reader
SyncFilteredVRSReader_str(rd, view) ==
    [out |-> Outcome(NoError, "str", -1, <<>>,
                     Some([enabled |-> Len(view.filtered_indices),
                           total |-> rd.n_records,
                           filtered |-> TRUE,
                           auto |-> EnabledOrDisabled(rd.auto_read_configuration_records),
                           stream_ids |-> view.record_filter.stream_ids,
                           record_types |-> view.record_filter.record_types,
                           counts |-> CacheAfterCounts(rd.record_counts_by_type,
                                                       view.record_filter.stream_ids)])),
     cache |-> CacheAfterCounts(rd.record_counts_by_type,
                                view.record_filter.stream_ids),
     asked |-> view.record_filter.stream_ids \ DOMAIN rd.record_counts_by_type]

\* AsyncFilteredVRSReader.__str__: the mode is read from
\* self._auto_read_configuration_records, which a filtered view does not
\* have; the lookup fails before the loop over the stream ids
AsyncFilteredVRSReader_str(rd, view) ==
    IF "_auto_read_configuration_records"
           \in FilteredVRSReaderAttrs \cup FilteredVRSReaderFields
    THEN SyncFilteredVRSReader_str(rd, view)
    ELSE [out |-> Raised(AttributeError),
          cache |-> rd.record_counts_by_type,
          asked |-> {}]
----------------------------------------------------------------------------
(* utils.py: stringify_metadata_keys                                       *)
(* A string is a tuple of characters; a dict is a function on its keys;    *)
(* the dict handed in is the sequence of its <<name, type>> keys in        *)
(* insertion order, and the value of an entry is its place in that order.  *)

\* ch * i
RECURSIVE Repeat(_, _)
Repeat(ch, i) == IF i <= 0 THEN <<>> ELSE <<ch>> \o Repeat(ch, i - 1)

\* dict_[key] = value
DictSet(dict_, key, value) ==
    [k \in DOMAIN dict_ \cup {key} |-> IF k = key THEN value ELSE dict_[k]]

\* dict_ after dict_.pop(key)
DictDel(dict_, key) == [k \in DOMAIN dict_ \ {key} |-> dict_[k]]

EmptyDict == [k \in {} |-> 0]

\* name + "<" * i + type_ + ">" * i
Bracketed(name, type_, i) == name \o Repeat("<", i) \o type_ \o Repeat(">", i)

\* a faulty variant of the loop: one more bracket is tried and taken
UniqueFrom_once(name, type_, dict_, i) ==
    IF Bracketed(name, type_, i) \notin DOMAIN dict_ THEN Bracketed(name, type_, i)
    ELSE Bracketed(name, type_, i + 1)

\* the loop of _unique_string_for_key from i on
RECURSIVE UniqueFrom(_, _, _, _)
UniqueFrom(name, type_, dict_, i) ==
    LET new_key == name \o Repeat("<", i) \o type_ \o Repeat(">", i)
    IN  IF new_key \notin DOMAIN dict_ THEN new_key
        ELSE UniqueFrom(name, type_, dict_, i + 1)

\* a faulty variant of _unique_string_for_key: the search begins at two brackets
unique_string_for_key_doubled(name, type_, dict_) == UniqueFrom(name, type_, dict_, 2)

\* _unique_string_for_key(name, type_, dict_): i = 1, then the loop
unique_string_for_key(name, type_, dict_) == UniqueFrom(name, type_, dict_, 1)

\* the body of the for loop for the entry (name, type_) with the given value
stringify_step(st, name, type_, value) ==
    IF st.err # NoError THEN st
    ELSE IF name \in st.ambiguous_names
    THEN [st EXCEPT !.filtered =
              DictSet(@, unique_string_for_key(name, type_, @), value)]
    ELSE IF name \in DOMAIN st.filtered
    THEN IF name \notin DOMAIN st.removed_types
         THEN [st EXCEPT !.err = KeyError, !.filtered = DictDel(@, name)]
         ELSE LET old_value == st.filtered[name]
                  old_type == st.removed_types[name]
                  f1 == DictDel(st.filtered, name)
                  f2 == DictSet(f1, unique_string_for_key(name, old_type, f1), old_value)
                  f3 == DictSet(f2, unique_string_for_key(name, type_, f2), value)
              IN  [st EXCEPT !.filtered = f3,
                             !.removed_types = DictDel(@, name),
                             !.ambiguous_names = @ \cup {name}]
    ELSE [st EXCEPT !.filtered = DictSet(@, name, value),
                    !.removed_types = DictSet(@, name, type_)]

RECURSIVE StringifyFrom(_, _, _)
StringifyFrom(st, metadata_dict, k) ==
    IF k > Len(metadata_dict) THEN st
    ELSE StringifyFrom(
             stringify_step(st, metadata_dict[k][1], metadata_dict[k][2], k),
             metadata_dict, k + 1)

\* stringify_metadata_keys(metadata_dict): the dict returned, or the error raised
stringify_metadata_keys(metadata_dict) ==
    StringifyFrom([filtered |-> EmptyDict, ambiguous_names |-> {},
                   removed_types |-> EmptyDict, err |-> NoError],
                  metadata_dict, 1)

----------------------------------------------------------------------------
(* Iteration                                                               *)

SYNC == "sync"
ASYNC == "async"

\* one step of `for record in view`: the views define no __iter__, so Python
\* asks view[0], view[1], ... and the IndexError of the subscript ends the loop
sync_next(list, pos) ==
    LET r == index_or_slice_records(list, IntArg(pos))
    IN  IF r.err = IndexError
        THEN [stop |-> TRUE, out |-> Outcome(NoError, "None", -1, <<>>, None)]
        ELSE [stop |-> FALSE, out |-> r]

\* a faulty variant of __anext__: the iteration stops one record early
async_next_short(list, pos) ==
    IF pos >= Len(list) - 1
    THEN [stop |-> TRUE, out |-> Outcome(NoError, "None", -1, <<>>, None)]
    ELSE [stop |-> FALSE, out |-> async_index_or_slice_records(list, IntArg(pos))]

\* __anext__: if self._index == len(self): raise StopAsyncIteration;
\* result = await self[self._index]; self._index += 1
async_next(list, pos) ==
    IF pos = Len(list)
    THEN [stop |-> TRUE, out |-> Outcome(NoError, "None", -1, <<>>, None)]
    ELSE [stop |-> FALSE, out |-> async_index_or_slice_records(list, IntArg(pos))]

iter_next(mode, list, pos) ==
    IF mode = SYNC THEN sync_next(list, pos) ELSE async_next(list, pos)

\* the list an iteration runs over: the view's own, or the one of view[arg]
iter_list(mode, vrs_indices, arg) ==
    IF IsNone(arg) THEN vrs_indices
    ELSE IF mode = SYNC
         THEN Val(index_or_slice_records(vrs_indices, Val(arg)).made).indices
         ELSE Val(async_index_or_slice_records(vrs_indices, Val(arg)).made).indices

\* the absolute indices a whole iteration yields from position pos on
RECURSIVE IterateFrom(_, _, _)
IterateFrom(mode, list, pos) ==
    LET n == iter_next(mode, list, pos)
    IN  IF n.stop \/ n.out.err # NoError THEN <<>>
        ELSE <<n.out.value>> \o IterateFrom(mode, list, pos + 1)

----------------------------------------------------------------------------
(* State machine                                                           *)

\* the record of an operation; an action fills in the fields it uses
NoOp ==
    [op |-> "init", on |-> READER, list |-> <<>>, arg |-> IntArg(0),
     fargs |-> <<None, None, None, None>>,
     stream_id |-> <<>>, record_type |-> "", timestamp |-> 0, epsilon |-> None,
     index |-> 0, full |-> NoOutcome, out |-> NoOutcome,
     decodes |-> <<>>, before |-> {}]

ViewExists(on) ==
    CASE on = READER -> TRUE
      [] on = FILTERED -> ~IsNone(filt)
      [] on = SLICE -> ~IsNone(sl)

\* the index list L a view indexes into
ViewIndices(on) ==
    CASE on = READER -> ReaderIndices
      [] on = FILTERED -> Val(filt).filtered_indices
      [] on = SLICE -> Val(sl).indices

\* the caller's arguments when none has been chosen
NoInput ==
    [fargs |-> <<None, None, None, None>>, sub |-> 0,
     start |-> None, stop |-> None, step |-> None,
     stream_id |-> S11, timestamp |-> 0, epsilon |-> None,
     record_type |-> DataT, index |-> 0, metadata |-> <<>>,
     recordable_type_id |-> "1",
     key_args |-> <<<<>>, <<>>, EmptyDict>>]

\* the `async for` loops that may run over one object at a time, and a
\* loop that has not begun: requested is the position whose record the loop
\* awaits, yielded the absolute indices its body has seen
Tasks == {"first", "second"}
NoTask == [pc |-> "idle", requested |-> 0, yielded |-> <<>>]

\* no iteration under way; pos is the object's _index, shared by every loop
\* over the object
NoIter ==
    [mode |-> "none", on |-> READER, arg |-> None, list |-> <<>>, pos |-> 0,
     yielded |-> <<>>, done |-> FALSE, tasks |-> [t \in Tasks |-> NoTask]]

\* a file is opened in one of the modes and the caller has chosen its arguments
InitIn(Modes, Inputs) ==
    \E c \in Catalogs, a \in Modes, x \in Inputs :
        /\ catalog = c
        /\ store = VRSReader_init_reader(a)
        /\ reader = VRSReader_init(a)
        /\ filt = None
        /\ sl = None
        /\ hist = {}
        /\ inp = x
        /\ last = NoOp
        /\ iter = NoIter

\* a faulty variant of AfterClose: a closed store goes on serving
AfterClose_serving(rec, out, failure) == out

\* an operation on a closed store: the Python part runs as on an open one,
\* and the first call that reaches the store fails.  A subscript reaches the
\* store when the list subscript succeeded with an integer; the lookups by
\* time call the store at once (the filtered get_record_index_by_time after
\* its assert); the neighbour searches call it inside `try ... except
\* IndexError: return None` (on a filtered view after the subscript of the
\* filtered list); filtered_by_fields asks it for the filtered indices
AfterClose(rec, out, failure) ==
    CASE rec.op \in {"get", "next"} ->
             IF out.calls = <<>> THEN out ELSE Raised(failure)
      [] rec.op = "read_record_by_time" -> Raised(failure)
      [] rec.op = "get_record_index_by_time" ->
             IF out.err = AssertionError THEN out ELSE Raised(failure)
      [] rec.op \in {"read_prev_record", "read_next_record"} ->
             IF rec.on = FILTERED /\ PyListIndex(rec.list, rec.index).err # NoError
             THEN out
             ELSE IF failure = IndexError THEN NoOutcome ELSE Raised(failure)
      [] rec.op = "filtered_by_fields" -> Raised(failure)
      [] OTHER -> out

\* what the caller of an operation gets
Served(rec, out) ==
    IF store.open THEN out ELSE AfterClose(rec, out, store.failure)

\* the store serves the read_record calls of an outcome (there is at most
\* one) and the operation is recorded
CommitStore(rec, call) ==
    LET out == Served(rec, call)
        ds == IF out.calls = <<>> THEN <<>>
              ELSE store_decodes(store.auto, store.lastReadConfig, out.calls[1])
    IN  /\ store' = [store EXCEPT !.lastReadConfig = AfterDecodes(@, ds)]
        /\ hist' = hist \cup ConfigsIn(ds)
        /\ last' = [rec EXCEPT !.out = out, !.decodes = ds, !.before = hist]
        /\ UNCHANGED <<catalog, reader, inp>>

\* an operation that is no step of an iteration
Commit(rec, out) == CommitStore(rec, out) /\ UNCHANGED iter

getitem(on, arg) ==
    CASE on = READER -> VRSReader_getitem(arg)
      [] on = FILTERED -> SyncFilteredVRSReader_getitem(Val(filt), arg)
      [] on = SLICE -> VRSReaderSlice_getitem(Val(sl), arg)

\* view[i] for an integer i
GetRecord(on, i) ==
    /\ ViewExists(on)
    /\ Commit([NoOp EXCEPT !.op = "get", !.on = on, !.list = ViewIndices(on),
                           !.arg = IntArg(i)],
              getitem(on, IntArg(i)))
    /\ UNCHANGED <<filt, sl>>

\* view[start:stop:step]
GetSlice(on, start, stop, step) ==
    /\ ViewExists(on)
    /\ LET out == getitem(on, SliceArg(start, stop, step))
       IN  /\ Commit([NoOp EXCEPT !.op = "slice", !.on = on, !.list = ViewIndices(on),
                                  !.arg = SliceArg(start, stop, step)], out)
           /\ sl' = IF out.kind = "view" THEN out.made ELSE sl
    /\ UNCHANGED filt

\* reader.filtered_by_fields(stream_ids=, record_types=, min_timestamp=, max_timestamp=)
FilteredByFields(stream_ids, record_types, min_timestamp, max_timestamp) ==
    LET rf == RecordFilter_of(stream_ids, record_types, min_timestamp, max_timestamp)
        made == FilteredVRSReader_init(READER, rf)
    IN  /\ Commit([NoOp EXCEPT !.op = "filtered_by_fields", !.on = READER,
                               !.list = ReaderIndices,
                               !.fargs = <<stream_ids, record_types,
                                           min_timestamp, max_timestamp>>],
                  IF made.err # NoError THEN Raised(made.err)
                  ELSE Outcome(NoError, "view", -1, <<>>, made.view))
        /\ filt' = IF made.err # NoError \/ ~store.open THEN filt ELSE made.view
        /\ UNCHANGED sl

\* filtered_view.filtered_by_fields(...): the attribute lookup on the filtered view
Refilter(stream_ids, record_types, min_timestamp, max_timestamp) ==
    /\ ViewExists(FILTERED)
    /\ LET rf == RecordFilter_of(stream_ids, record_types, min_timestamp, max_timestamp)
           made == IF "filtered_by_fields" \in FilteredVRSReaderAttrs
                   THEN FilteredVRSReader_init(FILTERED, rf)
                   ELSE [err |-> AttributeError, view |-> None]
       IN  /\ Commit([NoOp EXCEPT !.op = "refilter", !.on = FILTERED,
                                  !.list = ViewIndices(FILTERED),
                                  !.fargs = <<stream_ids, record_types,
                                              min_timestamp, max_timestamp>>],
                     IF made.err # NoError THEN Raised(made.err)
                     ELSE Outcome(NoError, "view", -1, <<>>, made.view))
           /\ filt' = IF made.err # NoError THEN filt ELSE made.view
    /\ UNCHANGED sl

\* SyncFilteredVRSReader(filtered_view, record_filter): a filtered view handed
\* to the constructor in the reader's place
ConstructOnFiltered(stream_ids, record_types, min_timestamp, max_timestamp) ==
    /\ ViewExists(FILTERED)
    /\ LET rf == RecordFilter_of(stream_ids, record_types, min_timestamp, max_timestamp)
           made == FilteredVRSReader_init(FILTERED, rf)
       IN  /\ Commit([NoOp EXCEPT !.op = "construct_on_filtered", !.on = FILTERED,
                                  !.list = ViewIndices(FILTERED),
                                  !.fargs = <<stream_ids, record_types,
                                              min_timestamp, max_timestamp>>],
                     IF made.err # NoError THEN Raised(made.err)
                     ELSE Outcome(NoError, "view", -1, <<>>, made.view))
           /\ filt' = IF made.err # NoError THEN filt ELSE made.view
    /\ UNCHANGED sl

\* `for record in view` or `for record in view[arg]` begins (async for in
\* the asynchronous mode: __aiter__ sets the index to 0)
IterStart(mode, on, arg) ==
    /\ on \in {READER, FILTERED}
    /\ ViewExists(on)
    /\ iter' = [mode |-> mode, on |-> on, arg |-> arg,
                list |-> iter_list(mode, ViewIndices(on), arg),
                pos |-> 0, yielded |-> <<>>, done |-> FALSE,
                tasks |-> [t \in Tasks |-> NoTask]]
    /\ CommitStore([NoOp EXCEPT !.op = "iter", !.on = on, !.list = ViewIndices(on)],
                   NoOutcome)
    /\ UNCHANGED <<filt, sl>>

\* the loop asks for its next record
IterNext ==
    /\ iter.mode # "none"
    /\ ~iter.done
    /\ LET n == iter_next(iter.mode, iter.list, iter.pos)
           rec == [NoOp EXCEPT !.op = "next", !.on = iter.on,
                               !.list = iter.list, !.arg = IntArg(iter.pos)]
           out == Served(rec, n.out)
       IN  /\ iter' = IF n.stop \/ out.err # NoError
                      THEN [iter EXCEPT !.done = TRUE]
                      ELSE [iter EXCEPT !.pos = @ + 1,
                                        !.yielded = Append(@, out.value)]
           /\ CommitStore(rec, n.out)
    /\ UNCHANGED <<filt, sl>>

\* view.get_timestamp_for_index(index)
GetTimestampForIndex(on, index) ==
    /\ on \in {READER, FILTERED}
    /\ ViewExists(on)
    /\ LET r == IF on = READER THEN VRSReader_get_timestamp_for_index(index)
                ELSE FilteredVRSReader_get_timestamp_for_index(Val(filt), index)
       IN  Commit([NoOp EXCEPT !.op = "get_timestamp_for_index", !.on = on,
                               !.list = ViewIndices(on), !.index = index],
                  IF r.err # NoError THEN Raised(r.err)
                  ELSE Outcome(NoError, "timestamp", r.value, <<>>, None))
    /\ UNCHANGED <<filt, sl>>

\* view._record_count_by_type_from_stream_id(stream_id)
RecordCountByType(on, stream_id) ==
    /\ on \in {READER, FILTERED}
    /\ ViewExists(on)
    /\ LET r == IF on = READER
                THEN VRSReader_record_count_by_type_from_stream_id(
                         reader.record_counts_by_type, stream_id)
                ELSE FilteredVRSReader_record_count_by_type_from_stream_id(
                         reader.record_counts_by_type, stream_id)
       IN  /\ r.asked => store.count_lookups[stream_id] < MaxLookups
           /\ reader' = [reader EXCEPT !.record_counts_by_type = r.cache]
           /\ store' = IF r.asked
                       THEN [store EXCEPT !.count_lookups[stream_id] = @ + 1]
                       ELSE store
           /\ last' = [NoOp EXCEPT !.op = "record_count_by_type", !.on = on,
                                   !.stream_id = stream_id, !.out = r.out]
    /\ UNCHANGED <<catalog, filt, sl, hist, inp, iter>>

\* str(view), for a view of the synchronous or the asynchronous reader
Str(mode, on) ==
    /\ on \in {READER, FILTERED}
    /\ ViewExists(on)
    /\ LET r == CASE on = READER -> VRSReader_str(reader)
                  [] on = FILTERED /\ mode = SYNC ->
                         SyncFilteredVRSReader_str(reader, Val(filt))
                  [] on = FILTERED /\ mode = ASYNC ->
                         AsyncFilteredVRSReader_str(reader, Val(filt))
       IN  /\ reader' = [reader EXCEPT !.record_counts_by_type = r.cache]
           /\ store' = [store EXCEPT !.count_lookups =
                            [s \in DOMAIN @ |-> IF s \in r.asked THEN @[s] + 1 ELSE @[s]]]
           /\ last' = [NoOp EXCEPT !.op = "str", !.on = on, !.list = ViewIndices(on),
                                   !.record_type = mode, !.out = r.out]
    /\ UNCHANGED <<catalog, filt, sl, hist, inp, iter>>

\* reader.close(): handed to the store
VRSReader_close(st, failure) == store_close(st, failure)

Close ==
    /\ store.open
    /\ \E failure \in StoreFailures : store' = VRSReader_close(store, failure)
    /\ last' = [NoOp EXCEPT !.op = "close"]
    /\ UNCHANGED <<catalog, reader, filt, sl, hist, inp, iter>>

\* filtered[_unique_string_for_key(name, type_, filtered)] = value
UniqueKey(name, type_, dict_, value) ==
    LET new_key == unique_string_for_key(name, type_, dict_)
    IN  /\ last.op # "_unique_string_for_key"
        /\ Commit([NoOp EXCEPT !.op = "_unique_string_for_key"],
                  Outcome(NoError, "key", -1, <<>>,
                          Some([new_key |-> new_key,
                                filtered |-> DictSet(dict_, new_key, value)])))
        /\ UNCHANGED <<filt, sl>>

\* stringify_metadata_keys(metadata_dict)
Stringify(metadata_dict) ==
    LET r == stringify_metadata_keys(metadata_dict)
    IN  /\ last.op # "stringify_metadata_keys"
        /\ Commit([NoOp EXCEPT !.op = "stringify_metadata_keys"],
                  IF r.err # NoError THEN Raised(r.err)
                  ELSE Outcome(NoError, "dict", -1, <<>>, Some(r.filtered)))
        /\ UNCHANGED <<filt, sl>>

TimeRec(op, on, stream_id, timestamp, epsilon) ==
    [NoOp EXCEPT !.op = op, !.on = on, !.list = ViewIndices(on),
                 !.stream_id = stream_id, !.timestamp = timestamp, !.epsilon = epsilon,
                 !.full = VRSReader_get_record_index_by_time(stream_id, timestamp, epsilon)]

\* view.get_record_index_by_time(stream_id, timestamp, epsilon)
GetRecordIndexByTime(on, stream_id, timestamp, epsilon) ==
    /\ on \in {READER, FILTERED}
    /\ ViewExists(on)
    /\ Commit(TimeRec("get_record_index_by_time", on, stream_id, timestamp, epsilon),
              IF on = READER
              THEN VRSReader_get_record_index_by_time(stream_id, timestamp, epsilon)
              ELSE FilteredVRSReader_get_record_index_by_time(
                       Val(filt), stream_id, timestamp, epsilon))
    /\ UNCHANGED <<filt, sl>>

\* view.read_record_by_time(stream_id, timestamp, epsilon)
ReadRecordByTime(on, stream_id, timestamp, epsilon) ==
    /\ on \in {READER, FILTERED}
    /\ ViewExists(on)
    /\ Commit(TimeRec("read_record_by_time", on, stream_id, timestamp, epsilon),
              IF on = READER
              THEN VRSReader_read_record_by_time(stream_id, timestamp, epsilon)
              ELSE FilteredVRSReader_read_record_by_time(
                       Val(filt), stream_id, timestamp, epsilon))
    /\ UNCHANGED <<filt, sl>>

NeighbourRec(op, on, stream_id, record_type, index) ==
    [NoOp EXCEPT !.op = op, !.on = on, !.list = ViewIndices(on),
                 !.stream_id = stream_id, !.record_type = record_type, !.index = index]

\* view.read_prev_record(stream_id, record_type, index)
ReadPrevRecord(on, stream_id, record_type, index) ==
    /\ on \in {READER, FILTERED}
    /\ ViewExists(on)
    /\ Commit(NeighbourRec("read_prev_record", on, stream_id, record_type, index),
              IF on = READER
              THEN VRSReader_read_prev_record(stream_id, record_type, index)
              ELSE FilteredVRSReader_read_prev_record(
                       Val(filt), stream_id, record_type, index))
    /\ UNCHANGED <<filt, sl>>

\* view.read_next_record(stream_id, record_type, index)
ReadNextRecord(on, stream_id, record_type, index) ==
    /\ on \in {READER, FILTERED}
    /\ ViewExists(on)
    /\ Commit(NeighbourRec("read_next_record", on, stream_id, record_type, index),
              IF on = READER
              THEN VRSReader_read_next_record(stream_id, record_type, index)
              ELSE FilteredVRSReader_read_next_record(
                       Val(filt), stream_id, record_type, index))
    /\ UNCHANGED <<filt, sl>>

----------------------------------------------------------------------------
(* Inputs and specifications                                               *)

Views == {READER, FILTERED, SLICE}
Subscripts == -MaxSub..MaxSub
SliceBounds == {None} \cup {Some(n) : n \in -MaxSliceArg..MaxSliceArg}
SliceSteps == {None, Some(-1), Some(2), Some(0)}
Timestamps == 0..MaxTs
Epsilons == {None} \cup {Some(e) : e \in 0..MaxEps}
FilterTimestamps == {None} \cup {Some(t) : t \in 1..MaxFilterTs}

StreamIdArgs ==
    {None, Some({S11}), Some({<<"1", "*">>}), Some({<<"?", "-", "1">>}),
     Some({<<"3", "*">>})}
RecordTypeArgs == {None, Some({DataT}), Some({ConfigurationT, StateT}), Some({"*"})}

\* every combination of the filter arguments
AllFilterArgs == StreamIdArgs \X RecordTypeArgs \X FilterTimestamps \X FilterTimestamps

\* a few filters: one stream's data, every configuration record, a glob with
\* a lower time bound, a glob no stream matches
SomeFilterArgs ==
    {<<Some({S11}), Some({DataT}), None, None>>,
     <<None, Some({ConfigurationT}), None, None>>,
     <<Some({<<"?", "-", "1">>}), None, Some(1), None>>,
     <<Some({<<"3", "*">>}), None, None, None>>}

\* one stream's data, and the glob no stream matches (an empty view)
TwoFilterArgs ==
    {<<Some({S11}), Some({DataT}), None, None>>,
     <<Some({<<"3", "*">>}), None, None, None>>}

\* the three setters of the image conversion policy, on the reader or on a
\* filtered view: the store's policy becomes what the setter leaves
SetterOutcome(r, name, on) ==
    /\ ViewExists(on)
    /\ store' = [store EXCEPT !.conversion = r.policy]
    /\ last' = [NoOp EXCEPT !.op = name, !.on = on, !.out = r.out]
    /\ UNCHANGED <<catalog, reader, filt, sl, hist, inp, iter>>

SetImageConversion(on, conversion) ==
    SetterOutcome(IF on = READER
                  THEN VRSReader_set_image_conversion(store.conversion, conversion)
                  ELSE FilteredVRSReader_set_image_conversion(store.conversion,
                                                              conversion),
                  "set_image_conversion", on)

SetStreamImageConversion(on, stream_id, conversion) ==
    SetterOutcome(IF on = READER
                  THEN VRSReader_set_stream_image_conversion(
                           store.conversion, stream_id, conversion)
                  ELSE FilteredVRSReader_set_stream_image_conversion(
                           store.conversion, stream_id, conversion),
                  "set_stream_image_conversion", on)

SetStreamTypeImageConversion(on, recordable_type_id, conversion) ==
    SetterOutcome(IF on = READER
                  THEN VRSReader_set_stream_type_image_conversion(
                           store.conversion, recordable_type_id, conversion)
                  ELSE FilteredVRSReader_set_stream_type_image_conversion(
                           store.conversion, recordable_type_id, conversion),
                  "set_stream_type_image_conversion", on)
Filter(f) == FilteredByFields(f[1], f[2], f[3], f[4])
FilterAgain(f) ==
    \/ Refilter(f[1], f[2], f[3], f[4])
    \/ ConstructOnFiltered(f[1], f[2], f[3], f[4])
Index(V) == \E on \in V : GetRecord(on, inp.sub)
Slice(V) == \E on \in V : GetSlice(on, inp.start, inp.stop, inp.step)
TimeLookup ==
    \E on \in {READER, FILTERED} :
        \/ GetRecordIndexByTime(on, inp.stream_id, inp.timestamp, inp.epsilon)
        \/ ReadRecordByTime(on, inp.stream_id, inp.timestamp, inp.epsilon)
NeighbourLookup ==
    \E on \in {READER, FILTERED} :
        \/ ReadPrevRecord(on, inp.stream_id, inp.record_type, inp.index)
        \/ ReadNextRecord(on, inp.stream_id, inp.record_type, inp.index)

\* filtering: any filter, indexing into the filtered view, filtering again
InputsFilter ==
    {[NoInput EXCEPT !.fargs = f, !.sub = i] : f \in AllFilterArgs, i \in 0..MaxSub}
NextFilter ==
    \/ Filter(inp.fargs)
    \/ \E f \in SomeFilterArgs : FilterAgain(f)
    \/ Index({FILTERED})
SpecFilter == InitIn(BOOLEAN, InputsFilter) /\ [][NextFilter]_vars

\* list behaviour: an integer subscript, in range or not, on the reader, on
\* a filtered view and on a slice
SomeSliceArgs == {<<Some(1), None, None>>, <<None, None, Some(-1)>>}
InputsIndex ==
    {[NoInput EXCEPT !.sub = i, !.start = a[1], !.stop = a[2], !.step = a[3]] :
         i \in Subscripts, a \in SomeSliceArgs}
NextIndex ==
    \/ \E f \in TwoFilterArgs : Filter(f)
    \/ Index(Views)
    \/ Slice(Views)
SpecIndex == InitIn(BOOLEAN, InputsIndex) /\ [][NextIndex]_vars

\* slicing: view[start:stop:step] of the reader and of a filtered view, and
\* the records of the slice
InputsSlice ==
    {[NoInput EXCEPT !.sub = k, !.start = a, !.stop = b, !.step = st] :
         k \in 0..MaxSliceArg, a \in SliceBounds, b \in SliceBounds, st \in SliceSteps}
NextSlice ==
    \/ \E f \in TwoFilterArgs : Filter(f)
    \/ Slice(Views)
    \/ Index({SLICE})
SpecSlice == InitIn({TRUE}, InputsSlice) /\ [][NextSlice]_vars

\* time lookups on the reader and on a filtered view
InputsTime ==
    {[NoInput EXCEPT !.stream_id = s, !.timestamp = t, !.epsilon = e] :
         s \in StreamUniverse, t \in Timestamps, e \in Epsilons}
NextTime ==
    \/ \E f \in SomeFilterArgs : Filter(f)
    \/ TimeLookup
SpecTime == InitIn(BOOLEAN, InputsTime) /\ [][NextTime]_vars

\* neighbour lookups on the reader and on a filtered view
InputsNeighbour ==
    {[NoInput EXCEPT !.stream_id = s, !.record_type = rt, !.index = i] :
         s \in StreamUniverse, rt \in RecordTypes, i \in Subscripts}
NextNeighbour ==
    \/ \E f \in SomeFilterArgs : Filter(f)
    \/ NeighbourLookup
SpecNeighbour == InitIn(BOOLEAN, InputsNeighbour) /\ [][NextNeighbour]_vars

\* every way a record is materialised: by position on the reader, on a
\* filtered view and on slices (a reversed one among them), by time and
\* by neighbour lookup
InputsAccess ==
    {[NoInput EXCEPT !.sub = i, !.step = Some(-1), !.stream_id = s, !.timestamp = t,
                     !.epsilon = e, !.index = j] :
         i \in {-1, 1}, s \in {S11, S21}, t \in {1, 3}, e \in {None, Some(1)},
         j \in {1, 5}}
NextAccess ==
    \/ \E f \in TwoFilterArgs : Filter(f)
    \/ Index(Views)
    \/ Slice(Views)
    \/ TimeLookup
    \/ NeighbourLookup
SpecAccess == InitIn(BOOLEAN, InputsAccess) /\ [][NextAccess]_vars

\* iteration: over the reader and a filtered view, forwards, over the
\* reversed view and over a slice that takes every record, in both modes
Reversed == SliceArg(None, None, Some(-1))
UpToMaxSub == SliceArg(None, Some(MaxSub), None)
IterArgs == {None, Some(Reversed), Some(UpToMaxSub)}
\* __anext__ of a loop up to its suspension point, the object's index being
\* pos: StopAsyncIteration when pos == len(self); otherwise self[pos] is
\* called, which fails at once when pos is beyond the list and else awaits
\* the store's read of that position
anext_request(task, list, pos) ==
    IF pos = Len(list) THEN [task EXCEPT !.pc = "done"]
    ELSE IF PyListIndex(list, pos).err # NoError THEN [task EXCEPT !.pc = "failed"]
    ELSE [task EXCEPT !.pc = "awaiting", !.requested = pos]

\* `async for record in view` begins in a loop over an object another loop
\* may be running over: __aiter__ sets the shared index to 0 and returns
\* self, and the first __anext__ runs up to its await
AiterStart(t, on) ==
    /\ on \in {READER, FILTERED}
    /\ ViewExists(on)
    /\ iter.mode \in {"none", ASYNC}
    /\ iter.mode = ASYNC => iter.on = on /\ iter.list = ViewIndices(on)
    /\ iter.tasks[t].pc = "idle"
    /\ iter' = [iter EXCEPT !.mode = ASYNC, !.on = on, !.list = ViewIndices(on),
                            !.pos = 0,
                            !.tasks[t] = anext_request(@, ViewIndices(on), 0)]
    /\ CommitStore([NoOp EXCEPT !.op = "aiter", !.on = on, !.list = ViewIndices(on)],
                   NoOutcome)
    /\ UNCHANGED <<filt, sl>>

\* the awaited read of a loop completes: the record of the requested
\* position is the result, self._index += 1 acts on the shared index, the
\* loop body sees the record and the loop's next __anext__ runs up to its
\* await
AnextResume(t) ==
    /\ iter.mode = ASYNC
    /\ iter.tasks[t].pc = "awaiting"
    /\ LET task == iter.tasks[t]
           rec == [NoOp EXCEPT !.op = "anext", !.on = iter.on, !.list = iter.list,
                               !.arg = IntArg(task.requested)]
           call == async_index_or_slice_records(iter.list, IntArg(task.requested))
           out == Served(rec, call)
       IN  /\ iter' = IF out.err # NoError
                      THEN [iter EXCEPT !.tasks[t].pc = "failed"]
                      ELSE [iter EXCEPT
                               !.pos = @ + 1,
                               !.tasks[t] = anext_request(
                                   [task EXCEPT !.yielded = Append(@, out.value)],
                                   iter.list, iter.pos + 1)]
           /\ CommitStore(rec, call)
    /\ UNCHANGED <<filt, sl>>

InputsIterate == {[NoInput EXCEPT !.fargs = f] : f \in SomeFilterArgs}
NextIterate ==
    \/ Filter(inp.fargs)
    \/ \E mode \in {SYNC, ASYNC}, on \in {READER, FILTERED}, arg \in IterArgs :
           IterStart(mode, on, arg)
    \/ IterNext
SpecIterate == InitIn(BOOLEAN, InputsIterate) /\ [][NextIterate]_vars

\* two `async for` loops over one object, interleaved at their awaits
Concurrent ==
    \/ \E t \in Tasks, on \in {READER, FILTERED} : AiterStart(t, on)
    \/ \E t \in Tasks : AnextResume(t)
NextConcurrent == Filter(inp.fargs) \/ Concurrent
SpecConcurrent == InitIn(BOOLEAN, InputsIterate) /\ [][NextConcurrent]_vars

\* metadata dicts: names that are plain, that look like a disambiguated
\* key, and types; every order of up to MaxEntries distinct (name, type) keys
MetaNames == {<<"a">>, <<"a", "<", "t", ">">>, <<"b">>}
MetaTypes == {<<"t">>, <<"u">>, <<"v">>}
MetaKeys == MetaNames \X MetaTypes
MetadataDicts ==
    UNION {{d \in [1..n -> MetaKeys] : \A i \in 1..n, j \in 1..n : i # j => d[i] # d[j]} :
               n \in 0..MaxEntries}
InputsMetadata == {[NoInput EXCEPT !.metadata = d] : d \in MetadataDicts}
NextMetadata == Stringify(inp.metadata)
SpecMetadata == InitIn({TRUE}, InputsMetadata) /\ [][NextMetadata]_vars

\* a key is synthesized for a name and a type against an output dict that
\* holds some of the bracketed keys already
OldValue == "old"
NewValue == "new"
KeyUniverse ==
    {Bracketed(<<"a">>, <<"t">>, i) : i \in 1..MaxBrackets}
        \cup {<<"a">>, Bracketed(<<"a">>, <<"u">>, 1)}
InputsUniqueKey ==
    {[NoInput EXCEPT !.key_args = <<<<"a">>, t, [k \in K |-> OldValue]>>] :
        t \in {<<"t">>, <<"u">>}, K \in SUBSET KeyUniverse}
NextUniqueKey ==
    UniqueKey(inp.key_args[1], inp.key_args[2], inp.key_args[3], NewValue)
SpecUniqueKey == InitIn({TRUE}, InputsUniqueKey) /\ [][NextUniqueKey]_vars

\* the image conversion policy is set on the reader and on a filtered view
RecordableTypeIds == {"1", "2"}
InputsImage ==
    {[NoInput EXCEPT !.fargs = f, !.stream_id = s, !.recordable_type_id = t] :
        f \in TwoFilterArgs, s \in {S11, S21}, t \in RecordableTypeIds}
SetPolicy ==
    \E on \in {READER, FILTERED}, conversion \in ImageConversions :
        \/ SetImageConversion(on, conversion)
        \/ SetStreamImageConversion(on, inp.stream_id, conversion)
        \/ SetStreamTypeImageConversion(on, inp.recordable_type_id, conversion)
NextImage == Filter(inp.fargs) \/ SetPolicy
SpecImage == InitIn({TRUE}, InputsImage) /\ [][NextImage]_vars

\* the per-stream counts are asked for through the reader and a filtered view
InputsCounts == {[NoInput EXCEPT !.fargs = f] : f \in SomeFilterArgs}
CountQuery ==
    \E on \in {READER, FILTERED}, stream_id \in StreamUniverse :
        RecordCountByType(on, stream_id)
NextCounts == Filter(inp.fargs) \/ CountQuery
SpecCounts == InitIn({TRUE}, InputsCounts) /\ [][NextCounts]_vars

\* summaries of the reader and of filtered views, in both modes of the
\* reader and through both facades
InputsStr == {[NoInput EXCEPT !.fargs = f] : f \in SomeFilterArgs}
Summary == \E mode \in {SYNC, ASYNC}, on \in {READER, FILTERED} : Str(mode, on)
NextStr == Filter(inp.fargs) \/ Summary \/ CountQuery
SpecStr == InitIn(BOOLEAN, InputsStr) /\ [][NextStr]_vars

\* timestamps are asked for by position, inside and outside the view
Positions == (-MaxSub)..MaxSub
InputsTimestamp ==
    {[NoInput EXCEPT !.fargs = f, !.index = i] : f \in SomeFilterArgs, i \in Positions}
TimestampForIndex ==
    \E on \in {READER, FILTERED} : GetTimestampForIndex(on, inp.index)
NextTimestamp == Filter(inp.fargs) \/ TimestampForIndex
SpecTimestamp == InitIn({TRUE}, InputsTimestamp) /\ [][NextTimestamp]_vars

\* views are made and read, and the reader is closed at some point
InputsClose ==
    {[NoInput EXCEPT !.fargs = f, !.sub = i, !.step = Some(-1),
                     !.stream_id = S11, !.record_type = DataT,
                     !.timestamp = t, !.index = j] :
        f \in TwoFilterArgs, i \in {0, 5}, t \in {1, 3}, j \in {1, 5}}
ReadByTime ==
    \E on \in {READER, FILTERED} :
        ReadRecordByTime(on, inp.stream_id, inp.timestamp, inp.epsilon)
Iterate == IterStart(SYNC, FILTERED, None) \/ IterNext
NextClose ==
    \/ Filter(inp.fargs)
    \/ Slice(Views)
    \/ Index(Views)
    \/ ReadByTime
    \/ NeighbourLookup
    \/ Iterate
    \/ Close
SpecClose == InitIn({FALSE}, InputsClose) /\ [][NextClose]_vars

----------------------------------------------------------------------------
(* Properties                                                              *)

\* the record at absolute index i passes the filter rf
Qualifies(i, rf) ==
    /\ Rec(i).type \in rf.record_types
    /\ Rec(i).stream \in rf.stream_ids
    /\ rf.min_timestamp <= Rec(i).ts
    /\ Rec(i).ts <= rf.max_timestamp

StrictlyAscending(L) == \A k \in 1..Len(L), l \in 1..Len(L) : k < l => L[k] < L[l]

\* C1: the index list of a filtered view built by filtered_by_fields holds
\* exactly the absolute indices whose record type is in the filter's
\* record_types, whose stream id is in its expanded stream_ids and whose
\* timestamp lies in [min_timestamp, max_timestamp], both ends included, in
\* ascending order; so a record read through the view passes the filter.
C1_FilterExact ==
    ~IsNone(filt) =>
        LET v == Val(filt)
        IN  /\ \A i \in 0..(NRecords - 1) :
                   (i \in Range(v.filtered_indices)) <=> Qualifies(i, v.record_filter)
            /\ Range(v.filtered_indices) \subseteq 0..(NRecords - 1)
            /\ StrictlyAscending(v.filtered_indices)
            /\ (last.op = "get" /\ last.on = FILTERED /\ last.out.kind = "record")
                   => Qualifies(last.out.value, v.record_filter)

\* a record at the filter's lower time bound is read through a view that
\* leaves some records out on each of the three conditions
C1_Witness ==
    /\ ~IsNone(filt)
    /\ last.op = "get" /\ last.on = FILTERED /\ last.out.kind = "record"
    /\ Rec(last.out.value).ts = Val(filt).record_filter.min_timestamp
    /\ \E i \in 0..(NRecords - 1) : Rec(i).ts < Val(filt).record_filter.min_timestamp
    /\ \E i \in 0..(NRecords - 1) : Rec(i).type \notin Val(filt).record_filter.record_types
    /\ \E i \in 0..(NRecords - 1) : Rec(i).stream \notin Val(filt).record_filter.stream_ids

FilterAgainOps == {"refilter", "construct_on_filtered"}

ListOf(on) ==
    CASE on = READER -> [k \in 1..NRecords |-> k - 1]
      [] on = FILTERED -> Val(filt).filtered_indices
      [] on = SLICE -> Val(sl).indices

\* C2: for an integer i with -len(L) <= i < len(L), get(i) on a reader, a
\* filtered view or a slice over L makes exactly one read_record call on the
\* store, at L[i] (a negative i counted from the end), and the record that
\* comes back has record_index L[i]; get(slice) makes a sub-view and no
\* read_record call.
C2_GetReadsOnce ==
    /\ last.op = "get" =>
           LET L == last.list
               n == Len(L)
               i == last.arg.i
           IN  /\ L = ListOf(last.on)
               /\ (-n <= i /\ i < n) =>
                      LET want == IF i < 0 THEN L[n + i + 1] ELSE L[i + 1]
                      IN  /\ last.out.err = NoError
                          /\ last.out.kind = "record"
                          /\ last.out.calls = <<want>>
                          /\ last.out.value = want
                          /\ last.decodes[Len(last.decodes)] = want
    /\ (last.op = "slice" /\ last.out.err = NoError) =>
           /\ last.out.kind = "view"
           /\ last.out.calls = <<>>
           /\ last.decodes = <<>>
           /\ sl = last.out.made

\* a negative subscript read a record of a filtered view whose positions and
\* absolute indices differ, and the store decoded a configuration record
\* on its own within that one call
C2_Witness ==
    /\ last.op = "get" /\ last.on = FILTERED
    /\ last.arg.i < -1 /\ -Len(last.list) <= last.arg.i
    /\ last.out.kind = "record"
    /\ last.out.value # Len(last.list) + last.arg.i
    /\ Len(last.decodes) = 2

\* C8: get(i) with i >= len(L) or i < -len(L) fails with IndexError and
\* makes no read_record call, on the reader, on a filtered view and on a slice.
C8_OutOfRange ==
    (/\ last.op = "get"
     /\ \/ last.arg.i >= Len(last.list)
        \/ last.arg.i < -Len(last.list)) =>
        /\ last.list = ListOf(last.on)
        /\ last.out.err = IndexError
        /\ last.out.kind = "raise"
        /\ last.out.calls = <<>>
        /\ last.decodes = <<>>

\* a subscript just past the end of a slice that holds records
C8_Witness ==
    /\ last.op = "get" /\ last.on = SLICE
    /\ Len(last.list) > 0
    /\ last.arg.i = Len(last.list)
    /\ last.out.err = IndexError

\* C9: for 0 <= a <= b <= len(view), view[a:b] has length b - a and, for
\* every k with 0 <= k < b - a, view[a:b][k] is the record view[a + k]: the
\* same absolute index is read.
C9_SliceWindow ==
    /\ (/\ last.op = "slice"
        /\ IsNone(last.arg.step)
        /\ ~IsNone(last.arg.start) /\ ~IsNone(last.arg.stop)
        /\ 0 <= Val(last.arg.start)
        /\ Val(last.arg.start) <= Val(last.arg.stop)
        /\ Val(last.arg.stop) <= Len(last.list)) =>
           LET a == Val(last.arg.start)
               b == Val(last.arg.stop)
           IN  /\ ~IsNone(sl)
               /\ Len(Val(sl).indices) = b - a
               /\ \A k \in 0..(b - a - 1) :
                      LET x == VRSReaderSlice_getitem(Val(sl), IntArg(k))
                          y == index_or_slice_records(last.list, IntArg(a + k))
                      IN  /\ x.kind = "record" /\ y.kind = "record"
                          /\ x.value = y.value
                          /\ x.calls = y.calls
                          /\ x.value = last.list[a + k + 1]
    /\ (last.op = "get" /\ last.on = SLICE /\ last.out.kind = "record"
        /\ last.arg.i >= 0) =>
           /\ last.out.value = Val(sl).indices[last.arg.i + 1]
           /\ last.out.calls = <<Val(sl).indices[last.arg.i + 1]>>

\* a window of two records that starts after the first record of a filtered view
C9_Witness ==
    /\ last.op = "slice" /\ last.on = FILTERED
    /\ last.arg = SliceArg(Some(0), Some(2), None)
    /\ ~IsNone(sl) /\ Len(Val(sl).indices) = 2
    /\ Val(sl).indices[1] # 0

\* every absolute index of the file
CatalogIndices == 0..(NRecords - 1)

TimeOps == {"get_record_index_by_time", "read_record_by_time"}

\* the records of a stream at or after a timestamp
AtOrAfter(stream_id, timestamp) ==
    {i \in CatalogIndices : Rec(i).stream = stream_id /\ Rec(i).ts >= timestamp}

\* C5: on a filtered view with index list L, get_record_index_by_time runs
\* the full-catalog search and returns the rightmost position p of L with
\* L[p] <= the full-catalog result, or position 0 when no element of L is
\* <= that result; a failure of the full-catalog search is the failure of
\* the call.
C5_FilteredRemap ==
    (/\ last.op = "get_record_index_by_time"
     /\ last.on = FILTERED
     /\ last.stream_id \in Val(filt).record_filter.stream_ids) =>
        LET L == Val(filt).filtered_indices
            P == {p \in 0..(Len(L) - 1) : L[p + 1] <= last.full.value}
        IN  IF last.full.err # NoError
            THEN last.out.err = last.full.err
            ELSE /\ last.out.err = NoError
                 /\ last.out.kind = "int"
                 /\ last.out.calls = <<>>
                 /\ last.out.value = IF P = {} THEN 0 ELSE SetMax(P)

\* the full-catalog result is not in the view and a later position than 0 comes back
C5_Witness ==
    /\ last.op = "get_record_index_by_time" /\ last.on = FILTERED
    /\ last.out.err = NoError
    /\ last.full.value \notin Range(Val(filt).filtered_indices)
    /\ last.out.value > 0
    /\ Val(filt).filtered_indices[last.out.value + 1] < last.full.value

\* C6: on the unfiltered reader a time lookup without epsilon resolves to the
\* smallest absolute index on stream_id whose timestamp is >= the requested
\* one, fails with ValueError when the requested timestamp is beyond the
\* stream's last one, and read_record_by_time reads exactly that index.
C6_LowerBound ==
    (/\ last.op \in TimeOps
     /\ last.on = READER
     /\ IsNone(last.epsilon)
     /\ last.stream_id \in reader.stream_ids) =>
        LET C == AtOrAfter(last.stream_id, last.timestamp)
            streamMax == SetMax({Rec(i).ts : i \in {j \in CatalogIndices :
                                                   Rec(j).stream = last.stream_id}})
        IN  /\ (C = {}) <=> (last.timestamp > streamMax)
            /\ IF C = {}
               THEN /\ last.out.err = ValueError
                    /\ last.out.calls = <<>>
               ELSE /\ last.out.err = NoError
                    /\ last.out.value = SetMin(C)
                    /\ last.op = "get_record_index_by_time" =>
                           last.out.kind = "int" /\ last.out.calls = <<>>
                    /\ last.op = "read_record_by_time" =>
                           /\ last.out.kind = "record"
                           /\ last.out.calls = <<SetMin(C)>>
                           /\ last.decodes[Len(last.decodes)] = SetMin(C)

\* a read by time between two records of the stream, which took the later one
C6_Witness ==
    /\ last.op = "read_record_by_time" /\ last.on = READER
    /\ IsNone(last.epsilon)
    /\ last.out.kind = "record"
    /\ Rec(last.out.value).ts > last.timestamp
    /\ \E i \in CatalogIndices :
           Rec(i).stream = last.stream_id /\ Rec(i).ts < last.timestamp

\* the records of a stream inside the epsilon window of a timestamp
Window(stream_id, timestamp, epsilon) ==
    {i \in CatalogIndices : Rec(i).stream = stream_id /\ InWindow(i, timestamp, epsilon)}

\* the nearest of a set of records, the smaller index on a tie
Nearest(W, timestamp) ==
    CHOOSE i \in W : \A j \in W :
        \/ Abs(Rec(i).ts - timestamp) < Abs(Rec(j).ts - timestamp)
        \/ Abs(Rec(i).ts - timestamp) = Abs(Rec(j).ts - timestamp) /\ i <= j

\* C7: for every epsilon value supplied to a time lookup, the result is the
\* index on stream_id nearest to the requested timestamp among those within
\* epsilon of it (the smaller index on a tie), and the lookup fails with
\* TimestampNotFoundError when no record of the stream is inside the window.
C7_EveryEpsilon ==
    (/\ last.op \in TimeOps
     /\ last.on = READER
     /\ ~IsNone(last.epsilon)
     /\ last.stream_id \in reader.stream_ids) =>
        LET W == Window(last.stream_id, last.timestamp, Val(last.epsilon))
        IN  IF W = {}
            THEN last.out.err = TimestampNotFoundError
            ELSE /\ last.out.err = NoError
                 /\ last.out.value = Nearest(W, last.timestamp)

\* C10: on the unfiltered reader read_prev_record(stream_id, record_type,
\* index) returns the record at the largest absolute index j <= index that
\* matches stream_id and record_type, read_next_record the record at the
\* smallest such j >= index; each returns None when there is no such j and
\* otherwise reads exactly that index.
C10_Neighbours ==
    (/\ last.op \in {"read_prev_record", "read_next_record"}
     /\ last.on = READER
     /\ last.index >= 0
     /\ last.stream_id \in reader.stream_ids) =>
        LET J == {j \in CatalogIndices :
                      /\ Matches(j, last.stream_id, last.record_type)
                      /\ IF last.op = "read_prev_record"
                         THEN j <= last.index ELSE j >= last.index}
            want == IF last.op = "read_prev_record" THEN SetMax(J) ELSE SetMin(J)
        IN  IF J = {}
            THEN /\ last.out.err = NoError
                 /\ last.out.kind = "None"
                 /\ last.out.calls = <<>>
                 /\ last.decodes = <<>>
            ELSE /\ last.out.err = NoError
                 /\ last.out.kind = "record"
                 /\ last.out.value = want
                 /\ last.out.calls = <<want>>
                 /\ last.decodes[Len(last.decodes)] = want

\* a next-lookup that skipped records of other streams or types to reach its answer
C10_Witness ==
    /\ last.op = "read_next_record" /\ last.on = READER
    /\ last.index >= 0
    /\ last.out.kind = "record"
    /\ last.out.value > last.index + 1

\* the configuration records of the stream of record i that precede i
ConfigsBefore(i) ==
    {c \in CatalogIndices :
         c < i /\ Rec(c).stream = Rec(i).stream /\ Rec(c).type = ConfigurationT}

\* C4: in auto mode, whatever the access path (reader, filtered view, slice,
\* time lookup, neighbour lookup) and whatever the order, the latest
\* configuration record of a stream that precedes a data or state record of
\* that stream has been decoded by the store before that record is decoded,
\* and is the configuration the store holds for the stream afterwards; the
\* mode chosen at construction is the store's mode ever after.
C4_AutoConfigFirst ==
    /\ store.auto = reader.auto_read_configuration_records
    /\ reader.auto_read_configuration_records =>
           \A p \in 1..Len(last.decodes) :
               LET i == last.decodes[p]
                   earlier == {last.decodes[q] : q \in 1..(p - 1)} \cup last.before
               IN  (Rec(i).type # ConfigurationT /\ ConfigsBefore(i) # {}) =>
                       /\ SetMax(ConfigsBefore(i)) \in earlier
                       /\ p = Len(last.decodes) =>
                              store.lastReadConfig[Rec(i).stream] = SetMax(ConfigsBefore(i))

\* in auto mode a data record was read through a slice after a later
\* configuration record of its stream had been decoded, so that the store
\* went back to the earlier configuration record first
C4_Witness ==
    /\ reader.auto_read_configuration_records
    /\ last.op = "get" /\ last.on = SLICE
    /\ Len(last.decodes) = 2
    /\ \E c \in last.before :
           /\ Rec(c).stream = Rec(last.decodes[2]).stream
           /\ c > last.decodes[2]

NeighbourOps == {"read_prev_record", "read_next_record"}

\* what the store's index lookup of the last neighbour operation answered
\* for the absolute index abs
NeighbourLookupAt(abs) ==
    IF last.op = "read_prev_record"
    THEN store_get_prev_index(last.stream_id, last.record_type, abs)
    ELSE store_get_next_index(last.stream_id, last.record_type, abs)

C12_BeyondEndIsNone ==
    (/\ last.op \in NeighbourOps
     /\ last.on = FILTERED
     /\ last.index >= Len(last.list)) =>
        /\ last.out.err = NoError
        /\ last.out.kind = "None"

\* the timestamps of a sequence of absolute indices never go down / never go up
NonDecreasing(ys) ==
    \A k \in 1..Len(ys), l \in 1..Len(ys) : k < l => Rec(ys[k]).ts <= Rec(ys[l]).ts
NonIncreasing(ys) ==
    \A k \in 1..Len(ys), l \in 1..Len(ys) : k < l => Rec(ys[k]).ts >= Rec(ys[l]).ts

\* C13: forward iteration over the reader or a filtered view yields records
\* with non-decreasing timestamps, iteration over the reversed view
\* (view[::-1]) records with non-increasing timestamps; the iteration ends
\* when every record of the view has been yielded.
C13_IterationOrder ==
    (iter.mode \in {SYNC, ASYNC} /\ iter.on \in {READER, FILTERED}) =>
        /\ IsNone(iter.arg) => NonDecreasing(iter.yielded)
        /\ iter.arg = Some(Reversed) => NonIncreasing(iter.yielded)
        /\ (iter.done /\ iter.arg \in {None, Some(Reversed)}) =>
               Len(iter.yielded) = Len(ListOf(iter.on))

\* a reversed iteration over a filtered view has come to its end after
\* yielding records of at least two different timestamps
C13_Witness ==
    /\ iter.mode = SYNC /\ iter.on = FILTERED /\ iter.arg = Some(Reversed)
    /\ iter.done
    /\ Len(iter.yielded) >= 2
    /\ Rec(iter.yielded[1]).ts > Rec(iter.yielded[Len(iter.yielded)]).ts

\* C14: a dimension omitted from filtered_by_fields restricts nothing:
\* record_types defaults to every available type, stream_ids to every
\* available stream id, min_timestamp and max_timestamp to the reader's own,
\* so a record is in the view exactly when it passes the dimensions that
\* were given; with every argument omitted the view has the length and the
\* index list of the unfiltered reader.
C14_OmittedIsUnrestricted ==
    (last.op = "filtered_by_fields" /\ last.out.err = NoError) =>
        LET f == last.fargs
            rf == Val(filt).record_filter
            L == Val(filt).filtered_indices
        IN  /\ IsNone(f[1]) => rf.stream_ids = reader.stream_ids
            /\ IsNone(f[2]) => rf.record_types = reader.record_types
            /\ IsNone(f[3]) => rf.min_timestamp = reader.min_timestamp
            /\ IsNone(f[4]) => rf.max_timestamp = reader.max_timestamp
            /\ \A i \in CatalogIndices :
                   (i \in Range(L)) <=>
                       /\ IsNone(f[1]) \/ Rec(i).stream \in rf.stream_ids
                       /\ IsNone(f[2]) \/ Rec(i).type \in rf.record_types
                       /\ IsNone(f[3]) \/ Rec(i).ts >= Val(f[3])
                       /\ IsNone(f[4]) \/ Rec(i).ts <= Val(f[4])
            /\ (\A k \in 1..4 : IsNone(f[k])) =>
                   /\ L = ReaderIndices
                   /\ Len(L) = reader.n_records

\* the reader was filtered with every argument omitted and the view holds
\* every record of the file
C14_Witness ==
    /\ last.op = "filtered_by_fields"
    /\ last.fargs = <<None, None, None, None>>
    /\ ~IsNone(filt)
    /\ Len(Val(filt).filtered_indices) = NRecords
    /\ NRecords > 0

\* a glob matches a name when the name can be cut into one piece per pattern
\* character: any piece for '*', one character for '?', the character
\* itself otherwise (cut[j] is the length of the name used up by the first
\* j pattern characters)
GlobMatches(name, pat) ==
    \E cut \in [0..Len(pat) -> 0..Len(name)] :
        /\ cut[0] = 0
        /\ cut[Len(pat)] = Len(name)
        /\ \A j \in 1..Len(pat) :
               IF pat[j] = "*" THEN cut[j] >= cut[j - 1]
               ELSE /\ cut[j] = cut[j - 1] + 1
                    /\ pat[j] = "?" \/ name[cut[j]] = pat[j]

\* C15: the stream_ids of a filter are exactly the available stream ids that
\* match at least one requested glob pattern, its record_types exactly the
\* available record types equal to a requested one (a requested "*" selects
\* no type); both are subsets of the reader's sets, and the reader's own
\* sets are what they were.
C15_ExpandedSets ==
    (last.op = "filtered_by_fields" /\ last.out.err = NoError) =>
        LET f == last.fargs
            rf == Val(filt).record_filter
            pats == IF IsNone(f[1]) THEN get_available_stream_ids ELSE Val(f[1])
            types == IF IsNone(f[2]) THEN get_available_record_types ELSE Val(f[2])
        IN  /\ rf.stream_ids =
                   {a \in get_available_stream_ids :
                        \E pat \in pats : GlobMatches(a, pat)}
            /\ rf.record_types = get_available_record_types \cap types
            /\ types = {"*"} => rf.record_types = {}
            /\ rf.stream_ids \subseteq reader.stream_ids
            /\ rf.record_types \subseteq reader.record_types
            /\ reader.stream_ids = get_available_stream_ids
            /\ reader.record_types = get_available_record_types

\* a '?' pattern picked some streams of the file and left another out
C15_Witness ==
    /\ last.op = "filtered_by_fields"
    /\ last.fargs[1] = Some({<<"?", "-", "1">>})
    /\ ~IsNone(filt)
    /\ Val(filt).record_filter.stream_ids # {}
    /\ Val(filt).record_filter.stream_ids # reader.stream_ids

\* C16 as stated: for every ordered input of metadata entries with distinct
\* (name, type) keys, stringify_metadata_keys returns a mapping with as many
\* entries as the input: every entry is kept under a key of its own and
\* the call never fails.
C16_SizeKept ==
    last.op = "stringify_metadata_keys" =>
        /\ last.out.err = NoError
        /\ Cardinality(DOMAIN Val(last.out.made)) = Len(inp.metadata)
        /\ \A k \in 1..Len(inp.metadata) :
               \E key \in DOMAIN Val(last.out.made) : Val(last.out.made)[key] = k

\* the setters of the image conversion policy
ImageOps ==
    {"set_image_conversion", "set_stream_image_conversion",
     "set_stream_type_image_conversion"}

\* C17: every call of one of the three image conversion setters on a
\* filtered view ends in NotImplementedError and leaves the store's
\* conversion policy as it was; the policy changes only in a step that is a
\* successful setter call on the unfiltered reader.
C17_PolicyOnlyOnReader ==
    [][/\ (last'.op \in ImageOps /\ last'.on = FILTERED)
            => (last'.out.err = NotImplementedError
                /\ store'.conversion = store.conversion)
       /\ (store'.conversion # store.conversion)
            => (last'.op \in ImageOps /\ last'.on = READER
                /\ last'.out.err = NoError)]_vars

\* a setter was refused on a filtered view after the reader had set a policy
C17_Witness ==
    /\ last.op \in ImageOps
    /\ last.on = FILTERED
    /\ last.out.err = NotImplementedError
    /\ store.conversion # NoConversionPolicy

\* what the three ways of walking a view with index list L yield
SyncRecords(L) == IterateFrom(SYNC, iter_list(SYNC, L, Some(UpToMaxSub)), 0)
AsyncRecords(L) == IterateFrom(ASYNC, L, 0)
AsyncSliceRecords(L) == IterateFrom(ASYNC, iter_list(ASYNC, L, Some(UpToMaxSub)), 0)

\* C18: for one file and one set of filter arguments, the synchronous
\* filtered view (walked through view[:n] with n at least its length), async
\* iteration over the asynchronous filtered view and async iteration over the
\* asynchronous slice view[:n] yield the same absolute indices in the same
\* order, namely the view's index list; an iteration under way in either
\* mode has yielded a prefix of it and a finished one all of it.
C18_SyncAsyncAgree ==
    ~IsNone(filt) =>
        LET L == Val(filt).filtered_indices
        IN  /\ SyncRecords(L) = L
            /\ AsyncRecords(L) = SyncRecords(L)
            /\ AsyncSliceRecords(L) = SyncRecords(L)
            /\ IterateFrom(SYNC, L, 0) = SyncRecords(L)
            /\ (iter.mode \in {SYNC, ASYNC} /\ iter.on = FILTERED
                    /\ iter.arg \in {None, Some(UpToMaxSub)}) =>
                   /\ Len(iter.yielded) <= Len(L)
                   /\ iter.yielded = SubSeq(L, 1, Len(iter.yielded))
                   /\ iter.done => iter.yielded = L

\* an async iteration over an asynchronous slice of a filtered view that
\* leaves records out has come to its end after at least two records
C18_Witness ==
    /\ ~IsNone(filt)
    /\ iter.mode = ASYNC /\ iter.on = FILTERED /\ iter.arg = Some(UpToMaxSub)
    /\ iter.done
    /\ Len(iter.yielded) >= 2
    /\ Len(iter.yielded) < NRecords
    /\ iter.yielded # SubSeq(AllIndices, 1, Len(iter.yielded))

\* the operations that ask for a record
SubscriptOps == {"get", "next", "read_record_by_time"}
SearchOps == {"read_prev_record", "read_next_record"}

C20_TimestampOrOutOfRange ==
    (last.op = "get_timestamp_for_index") =>
        IF 0 <= last.index /\ last.index < Len(last.list)
        THEN /\ last.out.err = NoError
             /\ last.out.value = Rec(last.list[last.index + 1]).ts
        ELSE last.out.err = IndexError

\* how many entries of the input carry the name
Occurrences(d, name) == Cardinality({k \in 1..Len(d) : d[k][1] = name})

\* a call of stringify_metadata_keys has returned a dict
Stringified == last.op = "stringify_metadata_keys" /\ last.out.err = NoError

\* the entry with value k is stored under the key
StoredAs(k, key) ==
    key \in DOMAIN Val(last.out.made) /\ Val(last.out.made)[key] = k

\* an entry's name is the key name<type> made from another entry
NameIsSynthesized(d) ==
    \E j \in 1..Len(d), k \in 1..Len(d) : d[k][1] = Bracketed(d[j][1], d[j][2], 1)

\* C21 as stated: in the dict returned, a name that occurs once is stored
\* under the bare name, and every entry of a name that occurs more than once
\* is stored as name<type> with its own type.
C21_BareOrNameType ==
    Stringified =>
        \A k \in 1..Len(inp.metadata) :
            LET name == inp.metadata[k][1]
                type_ == inp.metadata[k][2]
            IN  IF Occurrences(inp.metadata, name) = 1
                THEN StoredAs(k, name)
                ELSE StoredAs(k, Bracketed(name, type_, 1))

\* C21, amended: in the dict returned, a name that occurs once is stored
\* under the bare name; every entry of a name that occurs more than once is
\* stored as name, i >= 1 opening brackets, its own type and i closing
\* brackets, and no value is left under the bare name by that name's own
\* entries; i = 1, that is name<type>, whenever no entry of the input is
\* named like a synthesized key.  The call fails only with KeyError, and
\* only on an input in which an entry is named like a synthesized key.
C21_BareOrBracketed ==
    (last.op = "stringify_metadata_keys") =>
        /\ last.out.err \in {NoError, KeyError}
        /\ ~NameIsSynthesized(inp.metadata) => last.out.err = NoError
        /\ Stringified =>
               \A k \in 1..Len(inp.metadata) :
                   LET name == inp.metadata[k][1]
                       type_ == inp.metadata[k][2]
                   IN  IF Occurrences(inp.metadata, name) = 1
                       THEN StoredAs(k, name)
                       ELSE /\ \E i \in 1..Len(inp.metadata) :
                                   StoredAs(k, Bracketed(name, type_, i))
                            /\ ~StoredAs(k, name)
                            /\ ~NameIsSynthesized(inp.metadata) =>
                                   StoredAs(k, Bracketed(name, type_, 1))

\* a dict was returned for an input in which one name occurs three times and
\* another once
C21_Witness ==
    /\ Stringified
    /\ Len(inp.metadata) >= 3
    /\ \E k \in 1..Len(inp.metadata) :
           /\ Occurrences(inp.metadata, inp.metadata[k][1]) >= 2
           /\ StoredAs(k, Bracketed(inp.metadata[k][1], inp.metadata[k][2], 1))
    /\ \E k \in 1..Len(inp.metadata) :
           /\ Occurrences(inp.metadata, inp.metadata[k][1]) = 1
           /\ StoredAs(k, inp.metadata[k][1])

\* C22: the key synthesized for a name and a type against an output dict is
\* name, n opening brackets, the type and n closing brackets for the
\* smallest n >= 1 whose key is not in the dict, hence n >= 2 exactly when
\* name<type> is taken; the search ends within one step more than the dict
\* has keys, and storing under the key adds an entry and changes none.
C22_SmallestFreeKey ==
    (last.op = "_unique_string_for_key") =>
        LET name == inp.key_args[1]
            type_ == inp.key_args[2]
            dict_ == inp.key_args[3]
            made == Val(last.out.made)
        IN  /\ \E n \in 1..(Cardinality(DOMAIN dict_) + 1) :
                   /\ made.new_key = Bracketed(name, type_, n)
                   /\ \A m \in 1..(n - 1) : Bracketed(name, type_, m) \in DOMAIN dict_
                   /\ (n >= 2) <=> (Bracketed(name, type_, 1) \in DOMAIN dict_)
            /\ made.new_key \notin DOMAIN dict_
            /\ DOMAIN made.filtered = DOMAIN dict_ \cup {made.new_key}
            /\ made.filtered[made.new_key] = NewValue
            /\ \A k \in DOMAIN dict_ : made.filtered[k] = dict_[k]

\* name<type> and name<<type>> were taken and the key with three brackets
\* was made
C22_Witness ==
    /\ last.op = "_unique_string_for_key"
    /\ Bracketed(inp.key_args[1], inp.key_args[2], 2) \in DOMAIN inp.key_args[3]
    /\ Val(last.out.made).new_key = Bracketed(inp.key_args[1], inp.key_args[2], 3)

CountStep(s) == last'.op = "record_count_by_type" /\ last'.stream_id = s

CreateOps == {"filtered_by_fields", "slice"}

\* C24: creating filtered views and slices leaves the reader as it was at
\* the open: its length, record types, stream ids and min/max timestamp are
\* those of the whole file; reader[i] reads the record with absolute index i
\* for every i of the catalog, whatever views exist; the index list of a
\* filtered view is what its own filter selects from the catalog, whatever
\* was created before; and the creation of a view changes neither the
\* reader nor the views and slices that exist.
C24_ReaderUnchanged ==
    /\ [](/\ reader.n_records = NRecords
          /\ reader.record_types = {catalog[k].type : k \in 1..NRecords}
          /\ reader.stream_ids = {catalog[k].stream : k \in 1..NRecords}
          /\ reader.min_timestamp = catalog[1].ts
          /\ reader.max_timestamp = catalog[NRecords].ts)
    /\ []((last.op = "get" /\ last.on = READER
              /\ 0 <= last.arg.i /\ last.arg.i < NRecords) =>
             (last.out.kind = "record" /\ last.out.value = last.arg.i))
    /\ [](~IsNone(filt) =>
             \A i \in 0..(NRecords - 1) :
                 (i \in Range(Val(filt).filtered_indices))
                     <=> Qualifies(i, Val(filt).record_filter))
    /\ [][(last'.op \in CreateOps) =>
             /\ reader' = reader
             /\ (last'.op = "filtered_by_fields") => sl' = sl
             /\ (last'.op = "slice") => filt' = filt]_vars

\* with a filtered view that leaves records out and a slice in existence,
\* the reader reads a record that the view does not hold
C24_Witness ==
    /\ ~IsNone(filt) /\ ~IsNone(sl)
    /\ Len(Val(filt).filtered_indices) < NRecords
    /\ last.op = "get" /\ last.on = READER
    /\ last.out.kind = "record"
    /\ last.out.value = last.arg.i
    /\ last.arg.i \notin Range(Val(filt).filtered_indices)

\* C25: a forward iteration over the reader, a filtered view or a slice of
\* one, synchronous or asynchronous, has at every moment yielded the records
\* at the positions 0 .. pos - 1 of the view, in order; each step before the
\* end yields the record at the next position, the step at position
\* len(view) ends the iteration and yields nothing, so a finished iteration
\* has yielded exactly len(view) records and an empty view none.
C25_IterationLength ==
    /\ []((iter.mode \in {SYNC, ASYNC}) =>
             /\ IsNone(iter.arg) => iter.list = ListOf(iter.on)
             /\ iter.pos = Len(iter.yielded)
             /\ iter.pos <= Len(iter.list)
             /\ iter.yielded = SubSeq(iter.list, 1, iter.pos)
             /\ iter.done => Len(iter.yielded) = Len(iter.list))
    /\ [][(last'.op = "next") =>
             IF iter.pos < Len(iter.list)
             THEN /\ ~iter'.done
                  /\ iter'.yielded = Append(iter.yielded, iter.list[iter.pos + 1])
                  /\ last'.out.kind = "record"
                  /\ last'.out.value = iter.list[iter.pos + 1]
             ELSE /\ iter'.done
                  /\ iter'.yielded = iter.yielded
                  /\ last'.out.kind = "None"]_vars

\* an asynchronous iteration over a slice of the reader has ended after
\* yielding every record of the file
C25_Witness ==
    /\ iter.mode = ASYNC /\ iter.on = READER /\ iter.arg = Some(UpToMaxSub)
    /\ iter.done
    /\ Len(iter.yielded) = NRecords
    /\ NRecords > 0

\* C26 as stated: a record that read_record_by_time returns on a filtered
\* view has an absolute index that belongs to the view's index list.
C26_ReadByTimeInView ==
    (/\ last.op = "read_record_by_time"
     /\ last.on = FILTERED
     /\ last.out.kind = "record") =>
        last.out.value \in Range(Val(filt).filtered_indices)

\* C27 as stated: str() succeeds on the reader and on every filtered view,
\* through the synchronous and the asynchronous facade, and the summary of a
\* filtered view carries the auto-config mode of its base reader and the
\* enabled and total record counts.
C27_SummarySucceeds ==
    (last.op = "str") =>
        /\ last.out.err = NoError
        /\ last.out.kind = "str"
        /\ (last.on = FILTERED) =>
               /\ Val(last.out.made).auto = EnabledOrDisabled(store.auto)
               /\ Val(last.out.made).enabled = Len(Val(filt).filtered_indices)
               /\ Val(last.out.made).total = NRecords

\* C28 as stated: a position returned by get_record_index_by_time on a
\* filtered view is a valid position of that view, 0 <= p < len(view), for
\* every filter, those that select no record included.
C28_PositionInView ==
    (/\ last.op = "get_record_index_by_time"
     /\ last.on = FILTERED
     /\ last.out.err = NoError) =>
        /\ 0 <= last.out.value
        /\ last.out.value < Len(Val(filt).filtered_indices)

C30_LoopsUndisturbed ==
    \A t \in Tasks :
        LET task == iter.tasks[t]
        IN  /\ task.pc # "failed"
            /\ Len(task.yielded) <= Len(iter.list)
            /\ task.yielded = SubSeq(iter.list, 1, Len(task.yielded))
            /\ task.pc = "done" => task.yielded = iter.list

====
